---- MODULE Spec2Model ----
(***************************************************************************)
(* Model of the UDC engine pipeline (services/udc-engine): the phases      *)
(* P0 normalize, P1 route, P2 jurisdiction, P3 profiles, P4 tax cipher,    *)
(* P5 structure, P6 cashflow and P7 finalize, each phase one action over   *)
(* the deal that the previous phase produced.  Spec is one run of          *)
(* run_udc_with_config on a deal, a rule profile and an EngineConfig;      *)
(* SpecRepeated lets the caller run the same call a second time;           *)
(* SpecConversion applies the money factor / APR conversions on their own; *)
(* SpecTaxBase applies the two tax base calculations (build_tax_base of    *)
(* P4 and calculate_tax_base of algorithms/tax.rs) to the same deal;       *)
(* SpecStructure runs P5..P7 on a lease under each LeaseTaxMode variant.   *)
(*                                                                         *)
(* Numbers.  rust_decimal values are modelled exactly where the code       *)
(* rounds them to cents:                                                   *)
(*   - a money amount is a record [c, m]: c whole cents and m tenths of a  *)
(*     cent (0..9), value = c/100 + m/1000 dollars (floor form, so that    *)
(*     -0.004 is [c |-> -1, m |-> 6]);                                     *)
(*   - a tax rate, an APR and a residual percentage are integers in units  *)
(*     of 1/RateScale, a money factor in units of 1/MfScale;               *)
(*   - products and quotients are taken exactly (MulDivQR) and rounded     *)
(*     half-to-even, as Decimal::round_dp does.                            *)
(* The monthly rate apr/12 and its powers (1+r)^n are fixed-point values   *)
(* of 28 decimal places held in unbounded naturals, rounded to nearest as  *)
(* Decimal rounds them; everything the code rounds to cents is computed    *)
(* from them exactly.                                                      *)
(***************************************************************************)
EXTENDS Integers, Sequences, FiniteSets, TLC

VARIABLES pc, today, input, rule_profile, config, normalized, error,
          mode, jurisdiction, profiles, tax, structure, cashflow, output, previous,
          conversion, tax_base

vars == <<pc, today, input, rule_profile, config, normalized, error, mode,
          jurisdiction, profiles, tax, structure, cashflow, output, previous,
          conversion, tax_base>>

----------------------------------------------------------------------------
(* Option<T>: None is the empty sequence, Some(x) the one-element sequence. *)

None == <<>>

Some(x) == <<x>>

IsSome(o) == Len(o) > 0

Unwrap(o) == o[1]

----------------------------------------------------------------------------
(* let x = e; F(x): the value of e, computed once, bound to the argument   *)
(* of F.                                                                   *)
With(e, F(_)) == CHOOSE r \in { F(x) : x \in {e} } : TRUE

----------------------------------------------------------------------------
(* Scales of the fixed-point encodings. *)

RateScale == 10^4

MfScale == 10^5


----------------------------------------------------------------------------
(* Exact integer helpers. *)

Abs(x) == IF x < 0 THEN -x ELSE x

Min2(a, b) == IF a <= b THEN a ELSE b

Max2(a, b) == IF a >= b THEN a ELSE b

(* <<q, r>> with a * b = q * c + r and 0 <= r < c, for a, b >= 0 and        *)
(* 0 < c < 2^30, computed without forming the product a * b.               *)
(* times[n] is the pair for a * n, from the pair h for a * (n \div 2).     *)
MulDivQR(a, b, c) ==
    LET carry(r) == IF r >= c THEN 1 ELSE 0
        reduce[q \in Int, r \in Int] == <<q + carry(r), r - c * carry(r)>>
        double[h \in Seq(Int), bit \in 0..1] ==
            reduce[2 * h[1] + carry(2 * h[2]) + bit * (a \div c),
                   2 * h[2] - c * carry(2 * h[2]) + bit * (a % c)]
        times[n \in Nat] ==
            IF n = 0 THEN <<0, 0>> ELSE double[times[n \div 2], n % 2]
    IN  times[b]

(* Quotient q + r/c rounded to an integer, ties to the even neighbour.     *)
HalfEven(q, r, c) ==
    IF 2 * r < c THEN q
    ELSE IF 2 * r > c THEN q + 1
    ELSE IF q % 2 = 0 THEN q ELSE q + 1

(* round(a * b / c), half-to-even, for any sign of a; b >= 0, c > 0.       *)
MulDivRound(a, b, c) ==
    With(MulDivQR(Abs(a), b, c), LAMBDA qr :
         (IF a < 0 THEN -1 ELSE 1) * HalfEven(qr[1], qr[2], c))

(* round(a / n), half-to-even. *)
DivRound(a, n) == MulDivRound(a, 1, n)

----------------------------------------------------------------------------
(* Unbounded naturals, for the Decimal values that are not whole cents:    *)
(* a sequence of limbs in base BigBase, least significant first, without   *)
(* leading zero limbs (so 0 is the empty sequence).                        *)

BigBase == 10^4

Big == Seq(Nat)

ToBig[n \in Nat] == IF n = 0 THEN <<>> ELSE <<n % BigBase>> \o ToBig[n \div BigBase]

FromBig[a \in Big] == IF a = <<>> THEN 0 ELSE Head(a) + BigBase * FromBig[Tail(a)]

BigLimb(a, i) == IF i <= Len(a) THEN a[i] ELSE 0

BigTrim[a \in Big] ==
    IF a = <<>> THEN a
    ELSE IF a[Len(a)] = 0 THEN BigTrim[SubSeq(a, 1, Len(a) - 1)]
    ELSE a

(* Carry propagation over raw column values, from column i on. *)
BigCarry[raw \in Big, i \in Nat, carry \in Nat] ==
    IF i > Len(raw) THEN ToBig[carry]
    ELSE <<(raw[i] + carry) % BigBase>>
             \o BigCarry[raw, i + 1, (raw[i] + carry) \div BigBase]

BigAdd[a \in Big, b \in Big] ==
    BigTrim[BigCarry[[i \in 1..Max2(Len(a), Len(b)) |-> BigLimb(a, i) + BigLimb(b, i)],
                     1, 0]]

(* a - b for a >= b, from limb i on. *)
BigBorrow[a \in Big, b \in Big, i \in Nat, borrow \in 0..1] ==
    IF i > Len(a) THEN <<>>
    ELSE IF a[i] - BigLimb(b, i) - borrow < 0
    THEN <<a[i] - BigLimb(b, i) - borrow + BigBase>> \o BigBorrow[a, b, i + 1, 1]
    ELSE <<a[i] - BigLimb(b, i) - borrow>> \o BigBorrow[a, b, i + 1, 0]

BigSub[a \in Big, b \in Big] == BigTrim[BigBorrow[a, b, 1, 0]]

(* Column k of the product: the sum of a[i] * b[k + 1 - i] from i on. *)
BigColumn[a \in Big, b \in Big, k \in Nat, i \in Nat] ==
    IF i > Len(a) \/ i > k THEN 0
    ELSE a[i] * BigLimb(b, k + 1 - i) + BigColumn[a, b, k, i + 1]

BigMul[a \in Big, b \in Big] ==
    IF a = <<>> \/ b = <<>> THEN <<>>
    ELSE BigTrim[BigCarry[[k \in 1..(Len(a) + Len(b) - 1) |-> BigColumn[a, b, k, 1]],
                          1, 0]]

(* -1, 0, 1 as a < b, a = b, a > b over the limbs i..1. *)
BigCmpFrom[a \in Big, b \in Big, i \in Nat] ==
    IF i = 0 THEN 0
    ELSE IF a[i] < b[i] THEN -1
    ELSE IF a[i] > b[i] THEN 1
    ELSE BigCmpFrom[a, b, i - 1]

BigCmp[a \in Big, b \in Big] ==
    IF Len(a) < Len(b) THEN -1
    ELSE IF Len(a) > Len(b) THEN 1
    ELSE BigCmpFrom[a, b, Len(a)]

(* a * BigBase^k *)
BigShift[a \in Big, k \in Nat] == IF a = <<>> THEN a ELSE [i \in 1..k |-> 0] \o a

(* a * d for one limb d. *)
BigMulSmall[a \in Big, d \in Nat] ==
    IF d = 0 THEN <<>>
    ELSE BigTrim[BigCarry[[i \in 1..Len(a) |-> a[i] * d], 1, 0]]

(* The largest digit d in lo..hi with d * b <= a (lo qualifies). *)
BigDigit[a \in Big, b \in Big, lo \in Nat, hi \in Nat] ==
    IF lo = hi THEN lo
    ELSE IF BigCmp[BigMulSmall[b, (lo + hi + 1) \div 2], a] <= 0
    THEN BigDigit[a, b, (lo + hi + 1) \div 2, hi]
    ELSE BigDigit[a, b, lo, (lo + hi + 1) \div 2 - 1]

(* One step of long division: <<d, cur - d * b>> for the digit d, how     *)
(* often b goes into cur < BigBase * b.                                    *)
BigDivDigit[cur \in Big, b \in Big] ==
    With(IF BigCmp[cur, b] < 0 THEN 0 ELSE BigDigit[cur, b, 1, BigBase - 1],
         LAMBDA d : << d, BigSub[cur, BigMulSmall[b, d]] >>)

(* Long division of the limbs k..1 of a by b > 0, rem and quot being the   *)
(* remainder and the quotient of the limbs above k: <<quotient, remainder>>.*)
BigDivFrom[a \in Big, b \in Big, k \in Nat, rem \in Big, quot \in Big] ==
    IF k = 0 THEN << BigTrim[quot], rem >>
    ELSE LET next[dr \in Any] ==
                 BigDivFrom[a, b, k - 1, dr[2], <<dr[1]>> \o quot]
         IN  next[BigDivDigit[BigAdd[BigShift[rem, 1], ToBig[a[k]]], b]]

BigDivMod[a \in Big, b \in Big] == BigDivFrom[a, b, Len(a), <<>>, <<>>]

(* q + 1 when the rest is more than a half (half > 0) or is a half and q   *)
(* is odd, else q: a quotient rounded half-to-even.                        *)
BigHalfEven[q \in Nat, half \in -1..1] ==
    IF half < 0 \/ (half = 0 /\ q % 2 = 0) THEN q ELSE q + 1

(* round(a / b) to an integer, ties to even (Decimal::round_dp). *)
BigDivRound[a \in Big, b \in Big] ==
    With(BigDivMod[a, b], LAMBDA qr :
         BigHalfEven[FromBig[qr[1]], BigCmp[BigAdd[qr[2], qr[2]], b]])

(* Fixed point: a value with FracLimbs limbs after the point, the 28       *)
(* decimal places a Decimal can hold.                                      *)
FracLimbs == 7

FixOne == BigShift[<<1>>, FracLimbs]

(* The integer part of a fixed-point value. *)
FixFloor[a \in Big] ==
    IF Len(a) <= FracLimbs THEN <<>> ELSE SubSeq(a, FracLimbs + 1, Len(a))

(* a / b for two naturals, as a fixed-point value rounded to nearest. *)
FixDiv[a \in Big, b \in Big] ==
    With(BigDivMod[BigShift[a, FracLimbs], b], LAMBDA qr :
         IF BigCmp[BigAdd[qr[2], qr[2]], b] >= 0 THEN BigAdd[qr[1], <<1>>]
         ELSE qr[1])

(* The product of two fixed-point values, rounded to nearest. *)
FixMul[a \in Big, b \in Big] ==
    FixFloor[BigAdd[BigMul[a, b], BigShift[<<BigBase \div 2>>, FracLimbs - 1]]]

(* A fixed-point value rounded to an integer, ties to even. *)
FixRound[a \in Big] ==
    With(BigTrim[SubSeq(a, 1, Min2(Len(a), FracLimbs))], LAMBDA frac :
         BigHalfEven[FromBig[FixFloor[a]], BigCmp[BigAdd[frac, frac], FixOne]])

----------------------------------------------------------------------------
(* Decimal money: [c |-> cents, m |-> tenths of a cent]. *)

Money(cents, mills) == [c |-> cents, m |-> mills]

Cents(n) == [c |-> n, m |-> 0]

DZero == Cents(0)

DAdd(a, b) ==
    LET s == a.m + b.m
    IN  [c |-> a.c + b.c + (s \div 10), m |-> s % 10]

DNeg(a) == IF a.m = 0 THEN [c |-> -a.c, m |-> 0]
           ELSE [c |-> -a.c - 1, m |-> 10 - a.m]

DSub(a, b) == DAdd(a, DNeg(b))

DLt(a, b) == a.c < b.c \/ (a.c = b.c /\ a.m < b.m)

DLe(a, b) == ~DLt(b, a)

DMin(a, b) == IF DLe(a, b) THEN a ELSE b

DMax(a, b) == IF DLe(b, a) THEN a ELSE b

DAbs(a) == IF DLt(a, DZero) THEN DNeg(a) ELSE a

(* The sum of s[lo..hi], by halves. *)
RECURSIVE DSumRange(_, _, _)
DSumRange(s, lo, hi) ==
    IF lo > hi THEN DZero
    ELSE IF lo = hi THEN s[lo]
    ELSE LET mid == (lo + hi) \div 2
         IN  DAdd(DSumRange(s, lo, mid), DSumRange(s, mid + 1, hi))

DSum(s) == With(s, LAMBDA v : DSumRange(v, 1, Len(v)))

(* Decimal::round_dp(2): banker's rounding to whole cents. *)
round_money(v) ==
    Cents(IF v.m < 5 THEN v.c
          ELSE IF v.m > 5 THEN v.c + 1
          ELSE IF v.c % 2 = 0 THEN v.c ELSE v.c + 1)

(* (amount * rate).round_money() for an amount in whole cents. *)
RateMul(amount, rate) == Cents(MulDivRound(amount.c, rate, RateScale))

----------------------------------------------------------------------------
(* types/deal_input.rs: DealFees and the totals of DealInput. *)

(* The eleven named fees that normalize_fees validates and rounds, in the   *)
(* order of its checks (disposition_fee is not among them).                *)
NormalizedFeeNames ==
    << "doc_fee", "title_fee", "registration_fee", "plate_fee",
       "inspection_fee", "electronic_filing_fee", "tire_fee", "smog_fee",
       "destination_fee", "dealer_handling_fee", "acquisition_fee" >>

ZeroFees ==
    [ doc_fee |-> DZero, title_fee |-> DZero, registration_fee |-> DZero,
      plate_fee |-> DZero, inspection_fee |-> DZero,
      electronic_filing_fee |-> DZero, tire_fee |-> DZero, smog_fee |-> DZero,
      destination_fee |-> DZero, dealer_handling_fee |-> DZero,
      acquisition_fee |-> DZero, disposition_fee |-> DZero,
      other_fees |-> <<>> ]

Amounts(s) == [i \in 1..Len(s) |-> s[i].amount]

(* Sum of vals[i] over the entries i of a sequence with keep[i]. *)
DSumWhere(vals, keep) ==
    DSum([i \in 1..Len(vals) |-> IF keep[i] THEN vals[i] ELSE DZero])

total_government_fees(fees) ==
    DSum(<< fees.title_fee, fees.registration_fee, fees.plate_fee,
            fees.inspection_fee, fees.tire_fee, fees.smog_fee >>)

total_dealer_fees(fees) ==
    DAdd(DSum(<< fees.doc_fee, fees.electronic_filing_fee,
                 fees.destination_fee, fees.dealer_handling_fee >>),
         DSumWhere(Amounts(fees.other_fees),
                   [i \in 1..Len(fees.other_fees) |-> fees.other_fees[i].dealer_fee]))

fees_total(fees) ==
    DAdd(DSum([i \in 1..Len(NormalizedFeeNames) |-> fees[NormalizedFeeNames[i]]]),
         DSum(Amounts(fees.other_fees)))

total_rebates(inp) == DSum(Amounts(inp.rebates))

----------------------------------------------------------------------------
(* P0 - phases/p0_normalize.rs *)

MAX_VEHICLE_PRICE == 1000000000

MIN_FINANCE_TERM == 12

MAX_FINANCE_TERM == 84

MAX_APR == 3000

MIN_LEASE_TERM == 24

MAX_LEASE_TERM == 60

MAX_MONEY_FACTOR == 1000

MIN_ANNUAL_MILES == 5000

MAX_ANNUAL_MILES == 25000

ValidationError(field) == Some([kind |-> "Validation", field |-> field])

validate_vehicle_price(price) ==
    IF DLe(price, DZero) THEN ValidationError(<<"vehicle_price">>)
    ELSE IF DLt(Cents(MAX_VEHICLE_PRICE), price)
         THEN ValidationError(<<"vehicle_price">>)
    ELSE None

validate_non_negative(value, field) ==
    IF DLt(value, DZero) THEN ValidationError(field) ELSE None

(* The `?` chain: the first error of a sequence of check results. *)
FirstError(checks) ==
    With(checks, LAMBDA results :
         IF \A i \in 1..Len(results) : ~IsSome(results[i]) THEN None
         ELSE results[CHOOSE i \in 1..Len(results) :
                          /\ IsSome(results[i])
                          /\ \A j \in 1..(i - 1) : ~IsSome(results[j])])

validate_fees(fees) ==
    FirstError(
        [i \in 1..Len(NormalizedFeeNames) |->
            validate_non_negative(fees[NormalizedFeeNames[i]],
                                  <<"fees", NormalizedFeeNames[i]>>)]
        \o [i \in 1..Len(fees.other_fees) |->
            validate_non_negative(fees.other_fees[i].amount,
                                  <<"fees.other", fees.other_fees[i].name>>)])

normalize_fees(fees) ==
    [f \in DOMAIN fees |->
        IF \E i \in 1..Len(NormalizedFeeNames) : NormalizedFeeNames[i] = f
        THEN round_money(fees[f]) ELSE fees[f]]

validate_finance_params(inp) ==
    IF ~IsSome(inp.finance_params) THEN ValidationError(<<"finance_params">>)
    ELSE LET params == Unwrap(inp.finance_params)
         IN  IF params.term_months < MIN_FINANCE_TERM
                \/ params.term_months > MAX_FINANCE_TERM
             THEN ValidationError(<<"finance_params.term_months">>)
             ELSE IF params.apr < 0 \/ params.apr > MAX_APR
             THEN ValidationError(<<"finance_params.apr">>)
             ELSE None

validate_lease_params(inp) ==
    IF ~IsSome(inp.lease_params) THEN ValidationError(<<"lease_params">>)
    ELSE LET params == Unwrap(inp.lease_params)
         IN  IF params.term_months < MIN_LEASE_TERM
                \/ params.term_months > MAX_LEASE_TERM
             THEN ValidationError(<<"lease_params.term_months">>)
             ELSE IF params.money_factor <= 0
                     \/ params.money_factor > MAX_MONEY_FACTOR
             THEN ValidationError(<<"lease_params.money_factor">>)
             ELSE IF params.residual_percent <= 0
                     \/ params.residual_percent >= RateScale
             THEN ValidationError(<<"lease_params.residual_percent">>)
             ELSE IF params.annual_miles < MIN_ANNUAL_MILES
                     \/ params.annual_miles > MAX_ANNUAL_MILES
             THEN ValidationError(<<"lease_params.annual_miles">>)
             ELSE None

compute_net_trade(inp) ==
    DSub(IF IsSome(inp.trade_in_value) THEN Unwrap(inp.trade_in_value) ELSE DZero,
         IF IsSome(inp.trade_in_payoff) THEN Unwrap(inp.trade_in_payoff) ELSE DZero)

compute_product_totals(inp) ==
    LET prices == [i \in 1..Len(inp.products) |-> inp.products[i].price]
    IN  << DSumWhere(prices,
                     [i \in 1..Len(inp.products) |-> inp.products[i].taxable]),
           DSumWhere(prices,
                     [i \in 1..Len(inp.products) |-> ~inp.products[i].taxable]) >>

set_defaults(inp, now) ==
    [inp EXCEPT
        !.deal_date = IF IsSome(@) THEN @ ELSE Some(now),
        !.garaging_state = IF IsSome(@) THEN @ ELSE Some(inp.home_state)]

round_money_opt(o) == IF IsSome(o) THEN Some(round_money(Unwrap(o))) ELSE None

(* Steps 1-3 of normalize_deal_input: the first validation error, if any.  *)
(* Every check reads a field that no earlier step has rewritten to another *)
(* field, so the checks are evaluated on the raw input in the code's order.*)
normalize_error(inp) ==
    FirstError(
        << validate_vehicle_price(inp.vehicle_price),
           validate_non_negative(inp.cash_down, <<"cash_down">>) >>
        \o [i \in 1..Len(inp.rebates) |->
              validate_non_negative(inp.rebates[i].amount,
                                    <<"rebate", inp.rebates[i].id, "amount">>)]
        \o [i \in 1..Len(inp.products) |->
              validate_non_negative(inp.products[i].price,
                                    <<"product", inp.products[i].id, "price">>)]
        \o << validate_fees(inp.fees),
              IF inp.deal_type = "Finance" THEN validate_finance_params(inp)
              ELSE IF inp.deal_type = "Lease" THEN validate_lease_params(inp)
              ELSE None >>)

(* Steps 2, 4 and 5: the NormalizedDealInput of an input that validated.   *)
round_amounts(inp) ==
    [inp EXCEPT
        !.vehicle_price = round_money(@),
        !.cash_down = round_money(@),
        !.trade_in_value = round_money_opt(@),
        !.trade_in_payoff = round_money_opt(@),
        !.rebates = [i \in 1..Len(@) |-> [@[i] EXCEPT !.amount = round_money(@)]],
        !.products = [i \in 1..Len(@) |->
                        [@[i] EXCEPT !.price = round_money(@),
                                     !.cost = round_money(@)]],
        !.fees = normalize_fees(@)]

normalize_value(inp, now) ==
    With(round_amounts(inp), LAMBDA rounded :
    With(compute_net_trade(rounded), LAMBDA net_trade :
    With(compute_product_totals(rounded), LAMBDA totals :
         [ inner |-> set_defaults(rounded, now),
           net_trade |-> net_trade,
           total_rebates |-> total_rebates(rounded),
           total_taxable_products |-> totals[1],
           total_non_taxable_products |-> totals[2],
           total_fees |-> fees_total(rounded.fees),
           has_negative_equity |-> DLt(net_trade, DZero) ])))

(* Result<NormalizedDealInput>: [ok, val, err] with val/err as Options. *)
normalize_deal_input(inp, now) ==
    With(normalize_error(inp), LAMBDA e :
         IF IsSome(e) THEN [ok |-> FALSE, val |-> None, err |-> e]
         ELSE [ok |-> TRUE, val |-> Some(normalize_value(inp, now)), err |-> None])

----------------------------------------------------------------------------
(* P1 - phases/p1_mode_routing.rs *)

route_deal(n) == n.inner.deal_type

----------------------------------------------------------------------------
(* P2 - phases/p2_jurisdiction.rs *)

NO_SALES_TAX_STATES == {"MT", "OR", "NH", "DE"}

(* The lease rule with the garaging class tested on the home state. *)
determine_lease_governing_state_by_home(home, transaction, garaging) ==
    LET garaging_tax_states    == {"CA", "IL", "MA", "NJ", "NY", "PA"}
        transaction_tax_states == {"TX", "FL"}
    IN  IF transaction \in transaction_tax_states
        THEN <<transaction, IF home # transaction THEN Some(home) ELSE None>>
        ELSE IF home \in garaging_tax_states
        THEN <<garaging, IF transaction # garaging THEN Some(transaction) ELSE None>>
        ELSE <<home, IF transaction # home THEN Some(transaction) ELSE None>>

determine_lease_governing_state(home, transaction, garaging) ==
    LET garaging_tax_states    == {"CA", "IL", "MA", "NJ", "NY", "PA"}
        transaction_tax_states == {"TX", "FL"}
    IN  IF transaction \in transaction_tax_states
        THEN <<transaction, IF home # transaction THEN Some(home) ELSE None>>
        ELSE IF garaging \in garaging_tax_states
        THEN <<garaging, IF transaction # garaging THEN Some(transaction) ELSE None>>
        ELSE <<home, IF transaction # home THEN Some(transaction) ELSE None>>

determine_governing_state(home, transaction, garaging, deal_type) ==
    IF deal_type = "Lease"
    THEN determine_lease_governing_state(home, transaction, garaging)
    ELSE IF home = transaction THEN <<home, None>>
    ELSE <<home, Some(transaction)>>

build_jurisdiction_flags(home, garaging, customer) ==
    [ no_sales_tax_registration |-> home \in NO_SALES_TAX_STATES,
      military_exception |-> customer.is_military,
      commercial_registration |->
          customer.customer_type \in {"FleetCommercial", "Business"},
      split_registration |-> home # garaging ]

resolve_jurisdiction(n) ==
    LET inp       == n.inner
        garaging  == IF IsSome(inp.garaging_state) THEN Unwrap(inp.garaging_state)
                     ELSE inp.home_state
        governing == determine_governing_state(inp.home_state,
                         inp.transaction_state, garaging, inp.deal_type)
    IN  [ home_state |-> inp.home_state,
          transaction_state |-> inp.transaction_state,
          garaging_state |-> garaging,
          governing_state |-> governing[1],
          is_interstate |-> inp.home_state # inp.transaction_state,
          secondary_state |-> governing[2],
          flags |-> build_jurisdiction_flags(inp.home_state, garaging,
                                             inp.customer) ]

----------------------------------------------------------------------------
(* P3 - phases/p3_profiles.rs: the built-in rule profiles. *)

DefaultRates ==
    [ state_rate |-> 0, default_combined_rate |-> 0, district_rate |-> 0,
      tavt_rate |-> None, hut_rate |-> None, excise_rate |-> None ]

DefaultBaseRules ==
    [ trade_in_reduces_basis |-> TRUE, max_trade_in_credit |-> None,
      rebates_reduce_basis |-> FALSE, doc_fee_taxable |-> TRUE,
      destination_taxable |-> TRUE, max_taxable_amount |-> None,
      min_taxable_amount |-> None ]

DefaultAncillaryRules ==
    [ registration_taxable |-> FALSE, title_fee_taxable |-> FALSE ]

DefaultReciprocityRules ==
    [ offers_reciprocity |-> FALSE, full_credit_states |-> {},
      no_credit_states |-> {}, max_credit_rate |-> None ]

OffersReciprocity == [DefaultReciprocityRules EXCEPT !.offers_reciprocity = TRUE]

RuleProfile(state, deal_type, tax_type, rates, base_rules, reciprocity, lease_mode) ==
    [ state_code |-> state, mode |-> deal_type, tax_type |-> tax_type,
      rates |-> rates, base_rules |-> base_rules,
      ancillaries |-> DefaultAncillaryRules, reciprocity |-> reciprocity,
      lease_tax_mode |-> Some(lease_mode) ]

georgia_profile(deal_type) ==
    RuleProfile("GA", deal_type, "Tavt",
        [DefaultRates EXCEPT !.tavt_rate = Some(675)],
        [DefaultBaseRules EXCEPT !.rebates_reduce_basis = TRUE],
        OffersReciprocity, "CapCostUpfront")

north_carolina_profile(deal_type) ==
    RuleProfile("NC", deal_type, "Hut",
        [DefaultRates EXCEPT !.hut_rate = Some(300)],
        [DefaultBaseRules EXCEPT !.max_taxable_amount = Some(Cents(8000000))],
        OffersReciprocity, "MonthlyPayment")

west_virginia_profile(deal_type) ==
    RuleProfile("WV", deal_type, "Excise",
        [DefaultRates EXCEPT !.state_rate = 600, !.excise_rate = Some(500)],
        [DefaultBaseRules EXCEPT !.max_trade_in_credit = Some(Cents(2500000))],
        DefaultReciprocityRules, "MonthlyPayment")

texas_profile(deal_type) ==
    RuleProfile("TX", deal_type, "Sales",
        [DefaultRates EXCEPT !.state_rate = 625, !.default_combined_rate = 825],
        DefaultBaseRules, OffersReciprocity, "MonthlyPayment")

california_profile(deal_type) ==
    RuleProfile("CA", deal_type, "Sales",
        [DefaultRates EXCEPT !.state_rate = 725, !.default_combined_rate = 825],
        [DefaultBaseRules EXCEPT !.trade_in_reduces_basis = FALSE,
                                 !.rebates_reduce_basis = TRUE,
                                 !.doc_fee_taxable = FALSE],
        [OffersReciprocity EXCEPT !.max_credit_rate = Some(725)],
        "MonthlyPayment")

florida_profile(deal_type) ==
    RuleProfile("FL", deal_type, "Sales",
        [DefaultRates EXCEPT !.state_rate = 600, !.default_combined_rate = 700],
        [DefaultBaseRules EXCEPT !.rebates_reduce_basis = TRUE],
        OffersReciprocity, "MonthlyPayment")

new_york_profile(deal_type) ==
    RuleProfile("NY", deal_type, "Sales",
        [DefaultRates EXCEPT !.state_rate = 400, !.default_combined_rate = 800],
        [DefaultBaseRules EXCEPT !.rebates_reduce_basis = TRUE],
        OffersReciprocity, "CapCostUpfront")

no_tax_state_profile(state, deal_type) ==
    RuleProfile(state, deal_type, "None", DefaultRates, DefaultBaseRules,
        DefaultReciprocityRules, "Exempt")

default_profile(state, deal_type) ==
    RuleProfile(state, deal_type, "Sales",
        [DefaultRates EXCEPT !.state_rate = 600, !.default_combined_rate = 700],
        DefaultBaseRules, OffersReciprocity, "MonthlyPayment")

get_builtin_profile(state, deal_type) ==
    CASE state = "GA" -> georgia_profile(deal_type)
      [] state = "NC" -> north_carolina_profile(deal_type)
      [] state = "WV" -> west_virginia_profile(deal_type)
      [] state = "TX" -> texas_profile(deal_type)
      [] state = "CA" -> california_profile(deal_type)
      [] state = "FL" -> florida_profile(deal_type)
      [] state = "NY" -> new_york_profile(deal_type)
      [] state \in {"MT", "OR", "NH", "DE"} -> no_tax_state_profile(state, deal_type)
      [] OTHER -> default_profile(state, deal_type)

load_profiles(n, j) ==
    [ primary_rules |-> get_builtin_profile(j.governing_state, n.inner.deal_type),
      secondary_rules |->
          IF IsSome(j.secondary_state)
          THEN Some(get_builtin_profile(Unwrap(j.secondary_state), n.inner.deal_type))
          ELSE None ]

----------------------------------------------------------------------------
(* P4 - phases/p4_tax_cipher.rs *)

Ok(v) == [ok |-> TRUE, val |-> Some(v), err |-> None]

Err(e) == [ok |-> FALSE, val |-> None, err |-> Some(e)]

CalculationError(message, phase) ==
    [kind |-> "Calculation", field |-> <<message, phase>>]

DEFAULT_TAVT_RATE == 675

DEFAULT_HUT_RATE == 300

DEFAULT_EXCISE_RATE == 500

HUT_CAP == 8000000

INVARIANT_TOLERANCE == 2

UnwrapOr(o, d) == IF IsSome(o) THEN Unwrap(o) ELSE d

calculate_taxable_fees(fees, rules) ==
    DSum(<< IF rules.base_rules.doc_fee_taxable THEN fees.doc_fee ELSE DZero,
            IF rules.base_rules.destination_taxable THEN fees.destination_fee
            ELSE DZero,
            fees.dealer_handling_fee,
            IF rules.ancillaries.registration_taxable THEN fees.registration_fee
            ELSE DZero,
            IF rules.ancillaries.title_fee_taxable THEN fees.title_fee ELSE DZero,
            DSumWhere(Amounts(fees.other_fees),
                      [i \in 1..Len(fees.other_fees) |-> fees.other_fees[i].taxable])
         >>)

trade_in_credit(inp, rules, base) ==
    IF rules.base_rules.trade_in_reduces_basis
    THEN LET gross_credit == UnwrapOr(inp.trade_in_value, DZero)
             credit == IF IsSome(rules.base_rules.max_trade_in_credit)
                       THEN DMin(gross_credit,
                                 Unwrap(rules.base_rules.max_trade_in_credit))
                       ELSE gross_credit
         IN  DMax(DMin(credit, base), DZero)
    ELSE DZero

build_tax_base(n, rules) ==
    LET inp           == n.inner
        selling_price == inp.vehicle_price
    IN
    With(calculate_taxable_fees(inp.fees, rules), LAMBDA taxable_fees :
    With(DSumWhere([i \in 1..Len(inp.products) |-> inp.products[i].price],
                   [i \in 1..Len(inp.products) |-> inp.products[i].taxable]),
         LAMBDA taxable_products :
    With(DSum(<<selling_price, taxable_fees, taxable_products>>), LAMBDA base0 :
    With(trade_in_credit(inp, rules, base0), LAMBDA trade_credit_applied :
    With(IF DLt(DZero, trade_credit_applied)
         THEN DSub(base0, trade_credit_applied) ELSE base0, LAMBDA base1 :
    With(IF rules.base_rules.rebates_reduce_basis
         THEN DMin(total_rebates(inp), base1) ELSE DZero, LAMBDA rebates_applied :
    With(IF DLt(DZero, rebates_applied)
         THEN DSub(base1, rebates_applied) ELSE base1, LAMBDA base2 :
    LET capped == /\ IsSome(rules.base_rules.max_taxable_amount)
                  /\ DLt(Unwrap(rules.base_rules.max_taxable_amount), base2)
        base3  == IF capped THEN Unwrap(rules.base_rules.max_taxable_amount)
                  ELSE base2
    IN  [ breakdown |->
            [ selling_price |-> selling_price,
              taxable_fees |-> taxable_fees,
              taxable_products |-> taxable_products,
              trade_credit_applied |-> trade_credit_applied,
              rebates_applied |-> rebates_applied,
              adjustments |-> DZero,
              cap_applied |-> IF capped THEN Some(<<base2, base3>>) ELSE None ],
          base |-> round_money(DMax(base3, DZero)) ])))))))

TaxComponent(name, level, rate, base, amount) ==
    [name |-> name, level |-> level, rate |-> rate, base |-> base,
     amount |-> amount]

(* calculate_standard_tax with the component amounts truncated to the cent *)
(* while the total is summed from the rounded products.                    *)
calculate_standard_tax_truncated(rules, base) ==
    LET rates      == rules.rates
        local_rate == rates.default_combined_rate - rates.state_rate
        Trunc(rate) == Cents(MulDivQR(base.c, rate, RateScale)[1])
        state == IF rates.state_rate > 0
                 THEN << TaxComponent("State Tax", "State", rates.state_rate, base,
                                      Trunc(rates.state_rate)) >>
                 ELSE <<>>
        local == IF local_rate > 0
                 THEN << TaxComponent("Local Tax", "County", local_rate, base,
                                      Trunc(local_rate)) >>
                 ELSE <<>>
    IN  [ components |-> state \o local,
          total_tax |-> DAdd(IF rates.state_rate > 0
                             THEN RateMul(base, rates.state_rate) ELSE DZero,
                             IF local_rate > 0
                             THEN RateMul(base, local_rate) ELSE DZero),
          total_rate |-> (IF rates.state_rate > 0 THEN rates.state_rate ELSE 0)
                         + (IF local_rate > 0 THEN local_rate ELSE 0) ]

calculate_standard_tax(rules, base) ==
    LET rates      == rules.rates
        local_rate == rates.default_combined_rate - rates.state_rate
        state == IF rates.state_rate > 0
                 THEN << TaxComponent("State Tax", "State", rates.state_rate, base,
                                      RateMul(base, rates.state_rate)) >>
                 ELSE <<>>
        local == IF local_rate > 0
                 THEN << TaxComponent("Local Tax", "County", local_rate, base,
                                      RateMul(base, local_rate)) >>
                 ELSE <<>>
        district == IF rates.district_rate > 0
                    THEN << TaxComponent("District Tax", "District",
                                         rates.district_rate, base,
                                         RateMul(base, rates.district_rate)) >>
                    ELSE <<>>
    IN  With(state \o local \o district, LAMBDA components :
        [ components |-> components,
          total_tax |-> DSum(Amounts(components)),
          total_rate |-> (IF rates.state_rate > 0 THEN rates.state_rate ELSE 0)
                         + (IF local_rate > 0 THEN local_rate ELSE 0)
                         + (IF rates.district_rate > 0 THEN rates.district_rate ELSE 0) ])

SpecialTax(tax_type, name, base, rate, amount, cap_applied) ==
    [tax_type |-> tax_type, name |-> name, base |-> base, rate |-> rate,
     amount |-> amount, cap_applied |-> cap_applied]

calculate_tavt(rules, base) ==
    LET rate == UnwrapOr(rules.rates.tavt_rate, DEFAULT_TAVT_RATE)
    IN  SpecialTax("Tavt", "Georgia TAVT", base, rate, RateMul(base, rate), None)

calculate_hut(rules, base) ==
    LET rate         == UnwrapOr(rules.rates.hut_rate, DEFAULT_HUT_RATE)
        cap          == Cents(HUT_CAP)
        taxable_base == DMin(base, cap)
    IN  SpecialTax("Hut", "NC Highway Use Tax", taxable_base, rate,
                   RateMul(taxable_base, rate),
                   IF DLt(cap, base) THEN Some(cap) ELSE None)

calculate_excise(rules, base) ==
    LET rate == UnwrapOr(rules.rates.excise_rate, DEFAULT_EXCISE_RATE)
    IN  SpecialTax("Excise", "WV Privilege Tax", base, rate, RateMul(base, rate),
                   None)

calculate_reciprocity_credit(n, j, p, primary_tax) ==
    IF ~j.is_interstate THEN DZero
    ELSE IF ~IsSome(p.secondary_rules) THEN DZero
    ELSE IF ~p.primary_rules.reciprocity.offers_reciprocity THEN DZero
    ELSE LET secondary_rules == Unwrap(p.secondary_rules)
             reciprocity     == p.primary_rules.reciprocity
             base            == n.inner.vehicle_price
         IN  With(RateMul(base, secondary_rules.rates.default_combined_rate),
                  LAMBDA transaction_tax :
             IF secondary_rules.state_code \in reciprocity.full_credit_states
             THEN DMin(transaction_tax, primary_tax)
             ELSE IF IsSome(reciprocity.max_credit_rate)
             THEN DMin(DMin(transaction_tax,
                            RateMul(base, Unwrap(reciprocity.max_credit_rate))),
                       primary_tax)
             ELSE DMin(transaction_tax, primary_tax))

validate_tax_invariants(t) ==
    IF DLt(t.tax_base, DZero)
    THEN Some(CalculationError("Tax base cannot be negative", "P4_TAX"))
    ELSE IF DLt(t.net_tax, DZero)
    THEN Some(CalculationError("Net tax cannot be negative", "P4_TAX"))
    ELSE IF DLt(t.primary_tax, t.reciprocity_credit)
    THEN Some(CalculationError("Reciprocity credit cannot exceed primary tax",
                               "P4_TAX"))
    ELSE IF DLt(Cents(INVARIANT_TOLERANCE),
                DAbs(DSub(DSum(Amounts(t.components)), t.primary_tax)))
    THEN Some(CalculationError("Component sum != primary tax", "P4_TAX"))
    ELSE None

(* TaxAuditEntry, without its description and rule_applied texts. *)
TaxAuditEntry(step, input_value, output_value) ==
    [step |-> step, input_value |-> input_value, output_value |-> output_value]

(* The entries that build_tax_base, the special or standard tax,           *)
(* calculate_reciprocity_credit and calculate_tax push, in that order.      *)
tax_audit(n, j, p, built, special_tax, primary_tax, reciprocity_credit) ==
    LET rules == p.primary_rules
        breakdown == built.breakdown
    IN  << TaxAuditEntry("INITIAL_BASE", breakdown.selling_price,
                         DSum(<< breakdown.selling_price, breakdown.taxable_fees,
                                 breakdown.taxable_products >>)) >>
        \o (IF DLt(DZero, breakdown.trade_credit_applied)
            THEN << TaxAuditEntry("TRADE_CREDIT",
                                  UnwrapOr(n.inner.trade_in_value, DZero),
                                  breakdown.trade_credit_applied) >>
            ELSE <<>>)
        \o (IF DLt(DZero, breakdown.rebates_applied)
            THEN << TaxAuditEntry("REBATE_CREDIT", total_rebates(n.inner),
                                  breakdown.rebates_applied) >>
            ELSE <<>>)
        \o (IF IsSome(special_tax)
            THEN << TaxAuditEntry(CASE rules.tax_type = "Tavt" -> "TAVT"
                                    [] rules.tax_type = "Hut" -> "HUT"
                                    [] rules.tax_type = "Excise" -> "EXCISE",
                                  built.base, Unwrap(special_tax).amount) >>
            ELSE IF rules.tax_type # "None" /\ rules.rates.state_rate > 0
            THEN << TaxAuditEntry("STATE_TAX", built.base,
                                  RateMul(built.base, rules.rates.state_rate)) >>
            ELSE <<>>)
        \o (IF ~j.is_interstate \/ ~IsSome(p.secondary_rules) THEN <<>>
            ELSE IF ~rules.reciprocity.offers_reciprocity
            THEN << TaxAuditEntry("RECIPROCITY", DZero, DZero) >>
            ELSE IF DLt(DZero, reciprocity_credit)
            THEN << TaxAuditEntry("RECIPROCITY",
                        RateMul(n.inner.vehicle_price,
                                Unwrap(p.secondary_rules).rates.default_combined_rate),
                        reciprocity_credit) >>
            ELSE <<>>)
        \o << TaxAuditEntry("NET_TAX", primary_tax,
                            DMax(DSub(primary_tax, reciprocity_credit), DZero)) >>

(* Steps 1-5 with the special tax added to the standard components       *)
(* instead of replacing them.                                              *)
tax_calculation_special_added(n, j, p) ==
    LET rules == p.primary_rules
    IN
    With(build_tax_base(n, rules), LAMBDA built :
    With(CASE rules.tax_type = "Tavt" -> Some(calculate_tavt(rules, built.base))
           [] rules.tax_type = "Hut" -> Some(calculate_hut(rules, built.base))
           [] rules.tax_type = "Excise" -> Some(calculate_excise(rules, built.base))
           [] OTHER -> None, LAMBDA special_tax :
    With(calculate_standard_tax(rules, built.base), LAMBDA std :
    With(IF rules.tax_type = "None" THEN DZero
         ELSE IF IsSome(special_tax) THEN Unwrap(special_tax).amount
         ELSE std.total_tax, LAMBDA primary_tax :
    With(calculate_reciprocity_credit(n, j, p, primary_tax),
         LAMBDA reciprocity_credit :
         [ tax_base |-> built.base,
           base_breakdown |-> built.breakdown,
           primary_tax |-> primary_tax,
           tax_type |-> rules.tax_type,
           effective_rate |->
               IF rules.tax_type = "None" THEN 0
               ELSE IF IsSome(special_tax) THEN Unwrap(special_tax).rate
               ELSE std.total_rate,
           reciprocity_credit |-> reciprocity_credit,
           net_tax |-> DMax(DSub(primary_tax, reciprocity_credit), DZero),
           components |->
               IF rules.tax_type = "None" THEN <<>>
               ELSE IF IsSome(special_tax)
               THEN std.components
                    \o << TaxComponent(Unwrap(special_tax).name, "Special",
                                       Unwrap(special_tax).rate,
                                       Unwrap(special_tax).base,
                                       Unwrap(special_tax).amount) >>
               ELSE std.components,
           special_tax |-> special_tax,
           audit |-> tax_audit(n, j, p, built, special_tax, primary_tax,
                               reciprocity_credit) ])))))

(* Steps 1-5 of calculate_tax: the TaxCalculation before it is validated. *)
tax_calculation(n, j, p) ==
    LET rules == p.primary_rules
    IN
    With(build_tax_base(n, rules), LAMBDA built :
    With(CASE rules.tax_type = "Tavt" -> Some(calculate_tavt(rules, built.base))
           [] rules.tax_type = "Hut" -> Some(calculate_hut(rules, built.base))
           [] rules.tax_type = "Excise" -> Some(calculate_excise(rules, built.base))
           [] OTHER -> None, LAMBDA special_tax :
    With(calculate_standard_tax(rules, built.base), LAMBDA std :
    With(IF rules.tax_type = "None" THEN DZero
         ELSE IF IsSome(special_tax) THEN Unwrap(special_tax).amount
         ELSE std.total_tax, LAMBDA primary_tax :
    With(calculate_reciprocity_credit(n, j, p, primary_tax),
         LAMBDA reciprocity_credit :
         [ tax_base |-> built.base,
           base_breakdown |-> built.breakdown,
           primary_tax |-> primary_tax,
           tax_type |-> rules.tax_type,
           effective_rate |->
               IF rules.tax_type = "None" THEN 0
               ELSE IF IsSome(special_tax) THEN Unwrap(special_tax).rate
               ELSE std.total_rate,
           reciprocity_credit |-> reciprocity_credit,
           net_tax |-> DMax(DSub(primary_tax, reciprocity_credit), DZero),
           components |->
               IF rules.tax_type = "None" THEN <<>>
               ELSE IF IsSome(special_tax)
               THEN << TaxComponent(Unwrap(special_tax).name, "Special",
                                    Unwrap(special_tax).rate,
                                    Unwrap(special_tax).base,
                                    Unwrap(special_tax).amount) >>
               ELSE std.components,
           special_tax |-> special_tax,
           audit |-> tax_audit(n, j, p, built, special_tax, primary_tax,
                               reciprocity_credit) ])))))

(* calculate_tax without the clamp of the credit to the primary tax and    *)
(* without the final validation.                                           *)
calculate_tax_unclamped(n, j, p) ==
    With(tax_calculation(n, j, p), LAMBDA t :
    With(IF j.is_interstate /\ IsSome(p.secondary_rules)
            /\ p.primary_rules.reciprocity.offers_reciprocity
         THEN RateMul(n.inner.vehicle_price,
                      Unwrap(p.secondary_rules).rates.default_combined_rate)
         ELSE DZero, LAMBDA credit :
         Ok([t EXCEPT !.reciprocity_credit = credit,
                      !.net_tax = DSub(t.primary_tax, credit)])))

calculate_tax(n, j, p) ==
    With(tax_calculation(n, j, p), LAMBDA t :
    With(validate_tax_invariants(t), LAMBDA e :
         IF IsSome(e) THEN Err(Unwrap(e)) ELSE Ok(t)))

----------------------------------------------------------------------------
(* P5 - phases/p5_structure.rs *)

power_decimal(base, exp) ==
    LET loop[result \in Seq(Nat), current_base \in Seq(Nat), remaining_exp \in Nat] ==
            IF remaining_exp = 0 THEN result
            ELSE loop[IF remaining_exp % 2 = 1 THEN FixMul[result, current_base]
                      ELSE result,
                      FixMul[current_base, current_base],
                      remaining_exp \div 2]
    IN  loop[FixOne, base, exp]

MONTHS_PER_YEAR == 12

(* apr / dec!(12) as a fixed-point value. *)
monthly_rate(apr) == FixDiv[ToBig[apr], ToBig[MONTHS_PER_YEAR * RateScale]]

(* (amount * rate).round_dp(2) for whole cents and a fixed-point rate. *)
FixRateMul(amount, rate) == Cents(FixRound[BigMul[ToBig[amount.c], rate]])

(* <<monthly_payment, total_of_payments, finance_charge>> *)
calculate_loan_payment(principal, apr, term_months) ==
    IF DLe(principal, DZero) THEN Ok(<<DZero, DZero, DZero>>)
    ELSE IF apr = 0
    THEN With(Cents(DivRound(principal.c, term_months)), LAMBDA payment :
              Ok(<<payment, Cents(payment.c * term_months), DZero>>))
    ELSE
    With(monthly_rate(apr), LAMBDA r :
    With(power_decimal(BigAdd[FixOne, r], term_months), LAMBDA one_plus_r_n :
    With(BigSub[one_plus_r_n, FixOne], LAMBDA denominator :
         IF denominator = <<>>
         THEN Err(CalculationError("Division by zero in payment calculation",
                                   "P5_STRUCTURE"))
         ELSE
    With(Cents(BigDivRound[BigMul[BigMul[ToBig[principal.c], r], one_plus_r_n],
                           BigShift[denominator, FracLimbs]]), LAMBDA payment :
    With(Cents(payment.c * term_months), LAMBDA total_of_payments :
         Ok(<< payment, total_of_payments,
               DSub(total_of_payments, principal) >>))))))

ProductsTotal(n) == DAdd(n.total_taxable_products, n.total_non_taxable_products)

build_cash_structure(n, t) ==
    LET inp == n.inner
        selling_price   == inp.vehicle_price
        total_fees      == total_dealer_fees(inp.fees)
        government_fees == total_government_fees(inp.fees)
        fi_products     == ProductsTotal(n)
        trade_credit    == DMax(n.net_trade, DZero)
        rebates         == n.total_rebates
        sales_tax       == t.net_tax
    IN  Ok([ kind |-> "Cash",
             selling_price |-> selling_price,
             total_fees |-> total_fees,
             fi_products |-> fi_products,
             trade_credit |-> trade_credit,
             rebates |-> rebates,
             sales_tax |-> sales_tax,
             government_fees |-> government_fees,
             total_cash_price |->
                 round_money(DSub(DSub(DSum(<<selling_price, total_fees,
                                               government_fees, fi_products,
                                               sales_tax>>),
                                       trade_credit),
                                  rebates)) ])

build_finance_structure(n, t) ==
    LET inp == n.inner
    IN  IF ~IsSome(inp.finance_params)
        THEN Err(CalculationError("Missing finance params", "P5_STRUCTURE"))
        ELSE
        LET finance_params   == Unwrap(inp.finance_params)
            selling_price    == inp.vehicle_price
            taxable_fees     == total_dealer_fees(inp.fees)
            non_taxable_fees == total_government_fees(inp.fees)
            fi_products_financed == ProductsTotal(n)
            sales_tax        == t.net_tax
            cash_down        == inp.cash_down
            trade_credit     == DMax(n.net_trade, DZero)
            rebates          == n.total_rebates
            negative_equity  == IF DLt(n.net_trade, DZero) THEN DAbs(n.net_trade)
                                ELSE DZero
            gross_amount     == DSum(<<selling_price, taxable_fees, non_taxable_fees,
                                       fi_products_financed, sales_tax,
                                       negative_equity>>)
            total_reductions == DSum(<<cash_down, trade_credit, rebates>>)
        IN
        With(round_money(DMax(DSub(gross_amount, total_reductions), DZero)),
             LAMBDA amount_financed :
        With(calculate_loan_payment(amount_financed, finance_params.apr,
                                    finance_params.term_months), LAMBDA loan :
             IF ~loan.ok THEN loan
             ELSE Ok([ kind |-> "Finance",
                       selling_price |-> selling_price,
                       taxable_fees |-> taxable_fees,
                       non_taxable_fees |-> non_taxable_fees,
                       fi_products_financed |-> fi_products_financed,
                       sales_tax |-> sales_tax,
                       cash_down |-> cash_down,
                       trade_credit |-> trade_credit,
                       rebates |-> rebates,
                       negative_equity |-> negative_equity,
                       amount_financed |-> amount_financed,
                       apr |-> finance_params.apr,
                       term_months |-> finance_params.term_months,
                       monthly_payment |-> Unwrap(loan.val)[1],
                       total_of_payments |-> Unwrap(loan.val)[2],
                       finance_charge |-> Unwrap(loan.val)[3],
                       total_sale_price |->
                           DSum(<<amount_financed, Unwrap(loan.val)[3],
                                  cash_down>>) ])))

APR_PER_MONEY_FACTOR == 2400

calculate_capitalizable_fees(fees, params) ==
    DSum(<< fees.doc_fee,
            IF params.cap_acquisition_fee THEN fees.acquisition_fee ELSE DZero,
            fees.destination_fee >>)

(* The total of the depreciation and the rent charge divided over the     *)
(* term and rounded once, instead of the sum of the two rounded monthly    *)
(* amounts.                                                                *)
lease_charges_rounded_once(adjusted_cap_cost, residual_value, money_factor, term) ==
    With(DSub(adjusted_cap_cost, residual_value), LAMBDA depreciation :
    With(Cents(MulDivRound(DAdd(adjusted_cap_cost, residual_value).c,
                           money_factor * term, MfScale)), LAMBDA rent_charge :
         [ depreciation |-> depreciation,
           monthly_depreciation |-> Cents(DivRound(depreciation.c, term)),
           rent_charge |-> rent_charge,
           monthly_rent_charge |-> Cents(DivRound(rent_charge.c, term)),
           base_monthly_payment |->
               Cents(DivRound(depreciation.c + rent_charge.c, term)) ]))

(* The lease charges of build_lease_structure: depreciation, rent charge   *)
(* and base payment.                                                       *)
lease_charges(adjusted_cap_cost, residual_value, money_factor, term) ==
    With(DSub(adjusted_cap_cost, residual_value), LAMBDA depreciation :
    With(Cents(DivRound(depreciation.c, term)), LAMBDA monthly_depreciation :
    With(Cents(MulDivRound(DAdd(adjusted_cap_cost, residual_value).c,
                           money_factor * term, MfScale)), LAMBDA rent_charge :
    With(Cents(DivRound(rent_charge.c, term)), LAMBDA monthly_rent_charge :
         [ depreciation |-> depreciation,
           monthly_depreciation |-> monthly_depreciation,
           rent_charge |-> rent_charge,
           monthly_rent_charge |-> monthly_rent_charge,
           base_monthly_payment |->
               DAdd(monthly_depreciation, monthly_rent_charge) ]))))

build_lease_structure(n, p) ==
    LET inp == n.inner
    IN  IF ~IsSome(inp.lease_params)
        THEN Err(CalculationError("Missing lease params", "P5_STRUCTURE"))
        ELSE
        LET lease_params   == Unwrap(inp.lease_params)
            rules          == p.primary_rules
            lease_tax_mode == UnwrapOr(rules.lease_tax_mode, "MonthlyPayment")
            msrp           == inp.vehicle_price
            selling_price  == inp.vehicle_price
            capitalized_fees == calculate_capitalizable_fees(inp.fees, lease_params)
            capitalized_fi_products ==
                DSum([i \in 1..Len(inp.products) |-> inp.products[i].price])
            monthly_tax_rate == IF lease_tax_mode = "MonthlyPayment"
                                THEN rules.rates.default_combined_rate ELSE 0
            cash_down      == DAdd(inp.cash_down, lease_params.cap_cost_reduction)
            trade_credit   == DMax(n.net_trade, DZero)
            rebates        == n.total_rebates
            total_cap_reduction == DSum(<<cash_down, trade_credit, rebates>>)
            term           == lease_params.term_months
            security_deposit == UnwrapOr(lease_params.security_deposit, DZero)
            acquisition_fee_upfront ==
                IF ~lease_params.cap_acquisition_fee THEN inp.fees.acquisition_fee
                ELSE DZero
        IN
        With(IF lease_tax_mode = "CapCostUpfront"
             THEN RateMul(DSum(<<selling_price, capitalized_fees,
                                 capitalized_fi_products>>),
                          rules.rates.default_combined_rate)
             ELSE DZero, LAMBDA capitalized_tax :
        With(DSum(<<selling_price, capitalized_fees, capitalized_fi_products,
                    capitalized_tax>>), LAMBDA gross_cap_cost :
        With(round_money(DMax(DSub(gross_cap_cost, total_cap_reduction), DZero)),
             LAMBDA adjusted_cap_cost :
        With(RateMul(msrp, lease_params.residual_percent), LAMBDA residual_value :
        With(lease_charges(adjusted_cap_cost, residual_value,
                           lease_params.money_factor, term), LAMBDA charges :
        With(RateMul(charges.base_monthly_payment, monthly_tax_rate),
             LAMBDA monthly_tax :
        LET upfront_tax           == capitalized_tax
            base_monthly_payment  == charges.base_monthly_payment
            total_monthly_payment == DAdd(base_monthly_payment, monthly_tax)
            first_payment         == total_monthly_payment
            total_base_payments   == Cents(base_monthly_payment.c * term)
            total_tax == IF lease_tax_mode = "MonthlyPayment"
                         THEN Cents(monthly_tax.c * term) ELSE upfront_tax
        IN  Ok([ kind |-> "Lease",
                 msrp |-> msrp,
                 selling_price |-> selling_price,
                 capitalized_fees |-> capitalized_fees,
                 capitalized_fi_products |-> capitalized_fi_products,
                 capitalized_tax |-> capitalized_tax,
                 gross_cap_cost |-> gross_cap_cost,
                 cash_down |-> cash_down,
                 trade_credit |-> trade_credit,
                 rebates |-> rebates,
                 total_cap_reduction |-> total_cap_reduction,
                 adjusted_cap_cost |-> adjusted_cap_cost,
                 residual_percentage |-> lease_params.residual_percent,
                 residual_value |-> residual_value,
                 money_factor |-> lease_params.money_factor,
                 equivalent_apr |->
                     lease_params.money_factor * APR_PER_MONEY_FACTOR,
                 term_months |-> term,
                 depreciation |-> charges.depreciation,
                 monthly_depreciation |-> charges.monthly_depreciation,
                 rent_charge |-> charges.rent_charge,
                 monthly_rent_charge |-> charges.monthly_rent_charge,
                 base_monthly_payment |-> base_monthly_payment,
                 monthly_tax |-> monthly_tax,
                 total_monthly_payment |-> total_monthly_payment,
                 first_payment |-> first_payment,
                 security_deposit |-> security_deposit,
                 acquisition_fee_upfront |-> acquisition_fee_upfront,
                 upfront_tax |-> upfront_tax,
                 due_at_signing |->
                     DSum(<<first_payment, cash_down, security_deposit,
                            acquisition_fee_upfront, upfront_tax>>),
                 total_base_payments |-> total_base_payments,
                 total_tax |-> total_tax,
                 total_lease_cost |->
                     DSum(<<total_base_payments, total_tax, cash_down>>),
                 lease_tax_mode |-> lease_tax_mode ])))))))

build_structure(n, p, t) ==
    CASE n.inner.deal_type = "Cash" -> build_cash_structure(n, t)
      [] n.inner.deal_type = "Finance" -> build_finance_structure(n, t)
      [] n.inner.deal_type = "Lease" -> build_lease_structure(n, p)

----------------------------------------------------------------------------
(* P6 - phases/p6_cashflow.rs *)

is_leap_year(year) ==
    (year % 4 = 0 /\ year % 100 # 0) \/ (year % 400 = 0)

days_in_month(year, month) ==
    IF month \in {1, 3, 5, 7, 8, 10, 12} THEN 31
    ELSE IF month \in {4, 6, 9, 11} THEN 30
    ELSE IF month = 2 THEN (IF is_leap_year(year) THEN 29 ELSE 28)
    ELSE 30

(* NaiveDate + Duration::days(days), a month at a time: within the month  *)
(* if the days fit, else on from the first day of the next month.          *)
add_days[date \in Any, days \in Nat] ==
    IF date.d + days <= days_in_month(date.y, date.mo)
    THEN [date EXCEPT !.d = @ + days]
    ELSE add_days[IF date.mo < 12 THEN [y |-> date.y, mo |-> date.mo + 1, d |-> 1]
                  ELSE [y |-> date.y + 1, mo |-> 1, d |-> 1],
                  days - (days_in_month(date.y, date.mo) - date.d + 1)]

(* add_months without the carry of the months into the year. *)
add_months_within_year(date, months) ==
    LET year  == date.y
        month == ((date.mo + months - 1) % 12) + 1
    IN  [y |-> year, mo |-> month,
         d |-> Min2(date.d, days_in_month(year, month))]

add_months(date, months) ==
    LET year  == date.y + ((date.mo + months - 1) \div 12)
        month == ((date.mo + months - 1) % 12) + 1
    IN  [y |-> year, mo |-> month,
         d |-> Min2(date.d, days_in_month(year, month))]

DAYS_TO_FIRST_PAYMENT == 30

(* The iteration with the balance cleared one payment early: the entry    *)
(* before the final one pays off what remains, at the regular payment.     *)
amortization_entry_early_payoff(s, first_payment_date, monthly_rate_, i, remaining) ==
    LET payment_num == i + 1
        final       == payment_num = s.term_months
    IN
    With(FixRateMul(remaining, monthly_rate_), LAMBDA interest :
    With(IF payment_num + 1 >= s.term_months THEN remaining
         ELSE DMax(DSub(s.monthly_payment, interest), DZero), LAMBDA principal :
         [ payment_number |-> payment_num,
           due_date |-> add_months(first_payment_date, i),
           payment_amount |-> IF final THEN DAdd(principal, interest)
                              ELSE s.monthly_payment,
           principal |-> principal,
           interest |-> interest,
           remaining_balance |-> DMax(DSub(remaining, principal), DZero) ]))

(* One iteration of the loop of generate_finance_cashflow: the entry of    *)
(* iteration i, given the balance remaining before it.                     *)
amortization_entry(s, first_payment_date, monthly_rate_, i, remaining) ==
    LET payment_num == i + 1
        final       == payment_num = s.term_months
    IN
    With(FixRateMul(remaining, monthly_rate_), LAMBDA interest :
    With(IF final THEN remaining
         ELSE DMax(DSub(s.monthly_payment, interest), DZero), LAMBDA principal :
         [ payment_number |-> payment_num,
           due_date |-> add_months(first_payment_date, i),
           payment_amount |-> IF final THEN DAdd(principal, interest)
                              ELSE s.monthly_payment,
           principal |-> principal,
           interest |-> interest,
           remaining_balance |-> DMax(DSub(remaining, principal), DZero) ]))

(* Iterations lo .. hi-1 of the loop, given the balance remaining before   *)
(* iteration lo; the range is run by halves, in order.                     *)
amortize[s \in Any, first_payment_date \in Any, monthly_rate_ \in Big, lo \in Nat, hi \in Nat, remaining \in Any] ==
    IF lo >= hi THEN <<>>
    ELSE IF hi = lo + 1
    THEN << amortization_entry(s, first_payment_date, monthly_rate_, lo, remaining) >>
    ELSE With(amortize[s, first_payment_date, monthly_rate_, lo, (lo + hi) \div 2,
                       remaining], LAMBDA first :
              first \o amortize[s, first_payment_date, monthly_rate_,
                                (lo + hi) \div 2, hi,
                                first[Len(first)].remaining_balance])

generate_finance_cashflow(n, s, now) ==
    With(UnwrapOr(n.inner.first_payment_date,
                  add_days[UnwrapOr(n.inner.deal_date, now), DAYS_TO_FIRST_PAYMENT]),
         LAMBDA first_payment_date :
    With(amortize[s, first_payment_date, monthly_rate(s.apr), 0, s.term_months,
                  s.amount_financed], LAMBDA schedule :
         [ kind |-> "Finance",
           first_payment_date |-> first_payment_date,
           payment_day |-> first_payment_date.d,
           schedule |-> schedule,
           total_interest |->
               DSum([i \in 1..Len(schedule) |-> schedule[i].interest]),
           odd_days_interest |-> DZero ]))

generate_lease_cashflow(n, s, now) ==
    With(UnwrapOr(n.inner.first_payment_date, UnwrapOr(n.inner.deal_date, now)),
         LAMBDA first_payment_date :
    With([i \in 1..s.term_months |->
             [ payment_number |-> i,
               due_date |-> IF i = 1 THEN first_payment_date
                            ELSE add_months(first_payment_date, i - 1),
               base_payment |-> s.base_monthly_payment,
               tax |-> s.monthly_tax,
               total_payment |-> s.total_monthly_payment ]], LAMBDA schedule :
         [ kind |-> "Lease",
           first_payment_date |-> first_payment_date,
           payment_day |-> first_payment_date.d,
           schedule |-> schedule,
           total_payments |->
               DSum([i \in 1..Len(schedule) |-> schedule[i].total_payment]) ]))

(* Option<Cashflow>: None for a cash deal. *)
generate_cashflow(n, s, now) ==
    CASE s.kind = "Cash" -> None
      [] s.kind = "Finance" -> Some(generate_finance_cashflow(n, s, now))
      [] s.kind = "Lease" -> Some(generate_lease_cashflow(n, s, now))

----------------------------------------------------------------------------
(* P7 - phases/p7_finalize.rs.  Money::new and Rate::from_decimal wrap the *)
(* decimal unchanged (types/money.rs), so the output carries the values of *)
(* P4 and P5 as they are.  The disclosure and summary texts are left out;  *)
(* a disclosure is its code.                                                *)

build_tax_breakdown(t) ==
    [ line_items |->
          [i \in 1..Len(t.components) |->
              [ level |-> t.components[i].level,
                name |-> t.components[i].name,
                rate |-> t.components[i].rate,
                taxable_base |-> t.components[i].base,
                tax_amount |-> t.components[i].amount,
                is_credit |-> FALSE ]],
      gross_tax |-> t.primary_tax,
      reciprocity_credit |-> t.reciprocity_credit,
      net_tax |-> t.net_tax,
      tax_base |-> t.tax_base,
      effective_rate |-> t.effective_rate,
      special_tax_type |->
          IF IsSome(t.special_tax) THEN Some(Unwrap(t.special_tax).name) ELSE None,
      trade_in_applied |-> DLt(DZero, t.base_breakdown.trade_credit_applied),
      trade_in_credit_used |-> t.base_breakdown.trade_credit_applied,
      rebates_applied |-> DLt(DZero, t.base_breakdown.rebates_applied),
      rebate_amount_used |-> t.base_breakdown.rebates_applied ]

(* build_structures with a lease put in the finance slot. *)
build_structures_lease_as_finance(s) ==
    CASE s.kind = "Cash" ->
             << Some([f \in DOMAIN s \ {"government_fees"} |-> s[f]]), None, None >>
      [] s.kind = "Finance" -> << None, Some(s), None >>
      [] s.kind = "Lease" -> << None, Some(s), None >>

(* <<cash_structure, finance_structure, lease_structure>>: the output    *)
(* structures keep the fields of the P5 structure under the same names,   *)
(* except that the cash one has no government fees and the lease one has  *)
(* an upfront tax only when it is positive.                                *)
build_structures(s) ==
    CASE s.kind = "Cash" ->
             << Some([f \in DOMAIN s \ {"government_fees"} |-> s[f]]), None, None >>
      [] s.kind = "Finance" -> << None, Some(s), None >>
      [] s.kind = "Lease" ->
             << None, None,
                Some([s EXCEPT !.upfront_tax =
                         IF DLt(DZero, s.upfront_tax) THEN Some(s.upfront_tax)
                         ELSE None]) >>

generate_disclosures(deal_type, s, state) ==
    (CASE deal_type = "Finance" ->
              IF s.kind = "Finance" THEN << "TILA-BOX", "TILA-SCHEDULE" >> ELSE <<>>
       [] deal_type = "Lease" -> IF s.kind = "Lease" THEN << "REG-M" >> ELSE <<>>
       [] OTHER -> <<>>)
    \o (IF state = "CA" THEN << "CA-CAR-BUYERS" >> ELSE <<>>)

(* The system clock's reading, returned as the checksum. *)
rand_checksum(now) == now

build_audit_trace(now) ==
    [ entries |-> << [phase |-> "P0", operation |-> "normalize", timestamp |-> now],
                     [phase |-> "P1", operation |-> "route", timestamp |-> now] >>,
      calculated_at |-> now,
      input_checksum |-> << "sha256", rand_checksum(now) >>,
      output_checksum |-> << "sha256", rand_checksum(now) >> ]

(* env: what the call reads from outside the deal - the clock (now) and    *)
(* the two identifiers drawn by Uuid::new_v4 (uuids).                       *)
finalize_output(n, j, t, s, c, env) ==
    With(build_structures(s), LAMBDA structures :
         Ok([ output_id |-> env.uuids[2],
              deal_id |-> env.uuids[1],
              deal_type |-> n.inner.deal_type,
              calculated_at |-> env.now,
              validation |-> [valid |-> TRUE, errors |-> <<>>, warnings |-> <<>>],
              tax_breakdown |-> build_tax_breakdown(t),
              cash_structure |-> structures[1],
              finance_structure |-> structures[2],
              lease_structure |-> structures[3],
              amortization_schedule |->
                  IF IsSome(c) /\ Unwrap(c).kind = "Finance"
                  THEN Some(Unwrap(c).schedule) ELSE None,
              disclosures |->
                  generate_disclosures(n.inner.deal_type, s, j.governing_state),
              audit_trace |-> build_audit_trace(env.now) ]))

----------------------------------------------------------------------------
(* Money factor and APR (types/money.rs MoneyFactor, algorithms/lease.rs). *)
(* A Decimal is its fixed-point value with 28 places.  The APR is a        *)
(* fraction (0.03 for 3%), 24 times the money factor.                      *)

(* a / d for a fixed-point a and a natural d, rounded at the 28th place. *)
FixDivSmall[a \in Big, d \in Nat] ==
    With(BigDivMod[a, ToBig[d]], LAMBDA qr :
         IF BigCmp[BigAdd[qr[2], qr[2]], ToBig[d]] >= 0 THEN BigAdd[qr[1], <<1>>]
         ELSE qr[1])

(* MoneyFactor::to_apr: self.0 * dec!(2400) / dec!(100).  The product ends *)
(* in two zero digits, so the division by 100 is exact.                    *)
to_apr(mf) == FixDivSmall[BigMulSmall[mf, 2400], 100]

(* MoneyFactor::from_apr taking the APR for a percentage: apr / 2400. *)
from_apr_of_percentage(apr) == FixDivSmall[apr, 2400]

(* MoneyFactor::from_apr: apr.as_decimal() / dec!(24). *)
from_apr(apr) == FixDivSmall[apr, 24]

money_factor_to_apr(money_factor) == BigMulSmall[money_factor, 24]

apr_to_money_factor(apr) == FixDivSmall[apr, 24]

----------------------------------------------------------------------------
(* Deal inputs.  A deal is a DealInput record; the families below vary one *)
(* group of fields of a base deal at a time.                               *)

Date(y, mo, d) == [y |-> y, mo |-> mo, d |-> d]

DefaultCustomer == [customer_type |-> "Individual", is_military |-> FALSE]

FinanceParams(term, apr) == [term_months |-> term, apr |-> apr]

LeaseParams(term, mf, residual, miles) ==
    [ term_months |-> term, money_factor |-> mf, residual_percent |-> residual,
      annual_miles |-> miles, security_deposit |-> None,
      cap_acquisition_fee |-> TRUE, cap_cost_reduction |-> DZero ]

BaseFinanceParams == FinanceParams(MIN_FINANCE_TERM, 0)

BaseLeaseParams == LeaseParams(MIN_LEASE_TERM, 125, 6000, 12000)

Rebate(id, amount) == [id |-> id, amount |-> amount]

Product(id, price, cost, taxable) ==
    [id |-> id, price |-> price, cost |-> cost, taxable |-> taxable]

OtherFee(name, amount, dealer_fee, taxable) ==
    [name |-> name, amount |-> amount, dealer_fee |-> dealer_fee,
     taxable |-> taxable]

DealTypes == {"Cash", "Finance", "Lease"}

BaseDeal(deal_type, home, transaction) ==
    [ deal_type |-> deal_type,
      vehicle_price |-> Cents(3000000),
      trade_in_value |-> None,
      trade_in_payoff |-> None,
      cash_down |-> DZero,
      rebates |-> <<>>,
      products |-> <<>>,
      fees |-> ZeroFees,
      home_state |-> home,
      transaction_state |-> transaction,
      garaging_state |-> None,
      customer |-> DefaultCustomer,
      finance_params |-> IF deal_type = "Finance" THEN Some(BaseFinanceParams)
                         ELSE None,
      lease_params |-> IF deal_type = "Lease" THEN Some(BaseLeaseParams)
                       ELSE None,
      deal_date |-> None,
      first_payment_date |-> None ]

(* Amounts around the edges of the P0 checks: 0.004, 0.005, 0.006, 0,      *)
(* -0.004, -1.00, the price ceiling and just above it.                     *)
EdgePrices ==
    { Money(0, 4), Money(0, 5), Money(0, 6), DZero, Money(-1, 6), Cents(-100),
      Cents(1), Cents(MAX_VEHICLE_PRICE), Money(MAX_VEHICLE_PRICE, 1),
      Cents(MAX_VEHICLE_PRICE + 1) }

EdgeAmounts == { Cents(-100), Money(-1, 6), DZero, Money(12345, 5), Money(12346, 5) }

ValidationDeals ==
    LET Bases == { BaseDeal(t, "MT", "MT") : t \in DealTypes }
        Fin   == BaseDeal("Finance", "MT", "MT")
        Lse   == BaseDeal("Lease", "MT", "MT")
    IN  { [b EXCEPT !.vehicle_price = p] : b \in Bases, p \in EdgePrices }
        \cup { [b EXCEPT !.cash_down = a] : b \in Bases, a \in EdgeAmounts }
        \cup { [b EXCEPT !.vehicle_price = Cents(-100), !.cash_down = Cents(-100)] :
                 b \in Bases }
        \cup { [b EXCEPT !.trade_in_value = Some(a), !.trade_in_payoff = Some(q)] :
                 b \in Bases, a \in EdgeAmounts, q \in {DZero, Money(500, 5)} }
        \cup { [b EXCEPT !.rebates = <<Rebate("R1", Cents(50000)), Rebate("R2", a)>>] :
                 b \in Bases, a \in EdgeAmounts }
        \cup { [b EXCEPT !.products =
                   <<Product("P1", a, Money(1000, 5), TRUE),
                     Product("P2", Cents(20000), c, FALSE)>>] :
                 b \in Bases, a \in EdgeAmounts, c \in {Cents(-100), Cents(10000)} }
        \cup { [b EXCEPT !.fees[f] = a] :
                 b \in Bases, a \in EdgeAmounts,
                 f \in {NormalizedFeeNames[i] : i \in 1..Len(NormalizedFeeNames)}
                       \cup {"disposition_fee"} }
        \cup { [b EXCEPT !.fees.other_fees =
                   <<OtherFee("vin_etch", a, TRUE, TRUE)>>] :
                 b \in Bases, a \in EdgeAmounts }
        \cup { [b EXCEPT !.finance_params = None, !.lease_params = None] : b \in Bases }
        \cup { [Fin EXCEPT !.finance_params = Some(FinanceParams(t, 0))] :
                 t \in { MIN_FINANCE_TERM - 1, MIN_FINANCE_TERM,
                         MAX_FINANCE_TERM, MAX_FINANCE_TERM + 1 } }
        \cup { [Fin EXCEPT !.finance_params = Some(FinanceParams(MIN_FINANCE_TERM, a))] :
                 a \in { -1, 0, MAX_APR, MAX_APR + 1 } }
        \cup { [Lse EXCEPT !.lease_params = Some([BaseLeaseParams EXCEPT !.term_months = t])] :
                 t \in { MIN_LEASE_TERM - 1, MIN_LEASE_TERM,
                         MAX_LEASE_TERM, MAX_LEASE_TERM + 1 } }
        \cup { [Lse EXCEPT !.lease_params = Some([BaseLeaseParams EXCEPT !.money_factor = f])] :
                 f \in { -1, 0, 1, MAX_MONEY_FACTOR, MAX_MONEY_FACTOR + 1 } }
        \cup { [Lse EXCEPT !.lease_params = Some([BaseLeaseParams EXCEPT !.residual_percent = r])] :
                 r \in { 0, 1, RateScale - 1, RateScale } }
        \cup { [Lse EXCEPT !.lease_params = Some([BaseLeaseParams EXCEPT !.annual_miles = m])] :
                 m \in { MIN_ANNUAL_MILES - 1, MIN_ANNUAL_MILES,
                         MAX_ANNUAL_MILES, MAX_ANNUAL_MILES + 1 } }

(* Deals that exercise the tax rules: every built-in profile as governing  *)
(* state, interstate pairs for each reciprocity branch, prices below and   *)
(* above the 80,000 cap, trade-ins below, above and at the base and below  *)
(* zero, rebates, and fees and products of either tax status.              *)
StatePairs ==
    { <<h, h>> : h \in {"TX", "CA", "GA", "NC", "WV", "FL", "NY", "MT", "NV"} }
    \cup { <<"TX", "NV">>, <<"CA", "NV">>, <<"CA", "TX">>, <<"WV", "TX">>,
           <<"GA", "TX">>, <<"NC", "TX">>, <<"MT", "TX">>, <<"NV", "TX">>,
           <<"NY", "CA">>, <<"TX", "MT">>, <<"FL", "GA">> }

FullFees ==
    [ZeroFees EXCEPT !.doc_fee = Cents(29900), !.title_fee = Cents(5000),
                     !.registration_fee = Cents(10000),
                     !.destination_fee = Cents(100000),
                     !.other_fees = << OtherFee("vin_etch", Money(1234, 5), TRUE, TRUE),
                                       OtherFee("tire_tax", Cents(500), FALSE, FALSE) >>]

FullProducts ==
    << Product("VSC", Cents(50000), Cents(20000), TRUE),
       Product("GAP", Cents(30000), Cents(10000), FALSE) >>

TaxDeals ==
    { [BaseDeal(t, hs[1], hs[2]) EXCEPT
          !.vehicle_price = price,
          !.trade_in_value = trade,
          !.rebates = rebates,
          !.fees = extras[1],
          !.products = extras[2]] :
        t \in {"Cash", "Finance"},
        hs \in StatePairs,
        price \in { Cents(2000000), Cents(3000000), Cents(10000000) },
        trade \in { None, Some(Cents(1000000)), Some(Cents(4000000)),
                    Some(Cents(-500000)) },
        rebates \in { <<>>, <<Rebate("R1", Cents(100000))>> },
        extras \in { <<ZeroFees, <<>> >>, <<FullFees, FullProducts>> } }

(* Finance deals in a state without sales tax, so that the amount financed *)
(* is the price less the reductions: loans from nothing and a few cents up *)
(* to a typical balance, at APR 0 and at APRs up to the maximum, over the   *)
(* shortest to the longest term, with and without an underwater trade-in.  *)
LoanTerms ==
    { <<0, MIN_FINANCE_TERM>>, <<0, 13>>, <<0, MAX_FINANCE_TERM>>,
      <<300, MIN_FINANCE_TERM>>, <<599, 60>>, <<600, MIN_FINANCE_TERM>>,
      <<600, 13>>, <<725, 72>>, <<MAX_APR, MAX_FINANCE_TERM>> }

FinanceDeals ==
    { [BaseDeal("Finance", "MT", "MT") EXCEPT
          !.vehicle_price = price,
          !.cash_down = down,
          !.trade_in_value = trade[1],
          !.trade_in_payoff = trade[2],
          !.finance_params = Some(FinanceParams(at[2], at[1]))] :
        price \in { Cents(10000), Cents(100001), Cents(2027367), Cents(2500000) },
        down \in { DZero, Cents(9993), Cents(10000) },
        trade \in { <<None, None>>, <<Some(Cents(500000)), Some(Cents(800000))>> },
        at \in LoanTerms }

(* Lease deals under each lease tax mode, with residuals below and above   *)
(* the adjusted cap cost, money factors across the accepted range, and     *)
(* reductions that are not whole cents.                                    *)
LeaseStates ==
    { <<"TX", "TX", None>>, <<"NY", "NY", None>>, <<"GA", "GA", None>>,
      <<"MT", "MT", None>>, <<"NV", "NV", None>>, <<"NV", "TX", None>>,
      <<"NV", "NV", Some("NY")>>, <<"NV", "NY", Some("NY")>> }

FullLeaseFees ==
    [ZeroFees EXCEPT !.doc_fee = Cents(29900), !.acquisition_fee = Cents(59500),
                     !.destination_fee = Cents(100000)]

LeaseDeals ==
    { [BaseDeal("Lease", st[1], st[2]) EXCEPT
          !.garaging_state = st[3],
          !.vehicle_price = price,
          !.cash_down = extras.down,
          !.trade_in_value = trade[1],
          !.trade_in_payoff = trade[2],
          !.fees = extras.fees,
          !.products = extras.products,
          !.lease_params =
              Some([LeaseParams(term, mf, residual, 12000) EXCEPT
                       !.cap_cost_reduction = extras.reduction,
                       !.cap_acquisition_fee = extras.cap_acq,
                       !.security_deposit = extras.deposit])] :
        st \in LeaseStates,
        price \in { Cents(3000000), Cents(4500000) },
        term \in { MIN_LEASE_TERM, 36 },
        mf \in { 1, 125, MAX_MONEY_FACTOR },
        residual \in { 5500, 6000, RateScale - 1 },
        trade \in { <<None, None>>, <<Some(Cents(500000)), Some(Cents(800000))>> },
        extras \in { [down |-> DZero, reduction |-> DZero, cap_acq |-> TRUE,
                      deposit |-> None, fees |-> ZeroFees, products |-> <<>>],
                     [down |-> Cents(200000), reduction |-> Money(100000, 5),
                      cap_acq |-> FALSE, deposit |-> Some(Cents(50000)),
                      fees |-> FullLeaseFees, products |-> FullProducts] } }

Deals == ValidationDeals \cup TaxDeals \cup FinanceDeals \cup LeaseDeals

(* chrono::Local::now().date_naive() at the time of the run. *)
Todays == { Date(2024, 1, 31), Date(2025, 12, 15) }

(* What one call of finalize_output reads from outside the deal: the       *)
(* instant on the system clock and the two identifiers of Uuid::new_v4.    *)
Readings ==
    { [now |-> 1, uuids |-> << "u1", "u2" >>],
      [now |-> 2, uuids |-> << "u3", "u4" >>] }

(* The rule profile a caller hands to run_udc (types::RuleProfile): the    *)
(* Texas rules of the integration tests, whose only rate is the state     *)
(* rate.                                                                   *)
create_texas_rules ==
    [ state_code |-> "TX", deal_type |-> "Finance", state_rate |-> 625,
      county_rate |-> None, city_rate |-> None, district_rates |-> <<>> ]

(* create_finance_deal of the integration tests. *)
create_finance_deal(price, down, apr, term, state) ==
    [BaseDeal("Finance", state, state) EXCEPT
        !.vehicle_price = price, !.cash_down = down,
        !.finance_params = Some(FinanceParams(term, apr))]

(* The calls of run_udc_with_config, <<input, rule_profile, config>>:    *)
(* every deal with the Texas rules and EngineConfig::default() (which is  *)
(* what run_udc passes), and the deals of the integration tests also with *)
(* the same rules at a state rate of 7% and with strict validation.       *)
Calls ==
    LET RunUdcDeals ==
            { create_finance_deal(Cents(3000000), down, 500, 60, state) :
                down \in { DZero, Cents(300000) }, state \in { "TX", "NV", "MT" } }
        Default == [ enable_audit_trace |-> FALSE, strict_validation |-> FALSE,
                     timeout_ms |-> 0, enable_parallel |-> FALSE ]
    IN  { << d, create_texas_rules, Default >> : d \in Deals \cup RunUdcDeals }
        \cup { << d, [create_texas_rules EXCEPT !.state_rate = 700], Default >> :
                 d \in RunUdcDeals }
        \cup { << d, create_texas_rules,
                  [Default EXCEPT !.strict_validation = TRUE] >> :
                 d \in RunUdcDeals }

----------------------------------------------------------------------------
(* The pipeline (engine.rs run_udc, phases/mod.rs execute_pipeline): one   *)
(* action per phase.  run_udc_with_config serializes rule_profile and     *)
(* hands the text to execute_pipeline, which passes it to no phase; it    *)
(* hands config to nothing.                                                *)

Init ==
    /\ pc = "P0"
    /\ today \in Todays
    /\ \E call \in Calls :
           input = call[1] /\ rule_profile = call[2] /\ config = call[3]
    /\ normalized = None
    /\ error = None
    /\ mode = None
    /\ jurisdiction = None
    /\ profiles = None
    /\ tax = None
    /\ structure = None
    /\ cashflow = None
    /\ output = None
    /\ previous = None
    /\ conversion = None
    /\ tax_base = None

P0_Normalize ==
    /\ pc = "P0"
    /\ \E r \in {normalize_deal_input(input, today)} :
           /\ normalized' = r.val
           /\ error' = r.err
           /\ pc' = IF r.ok THEN "P1" ELSE "failed"
    /\ UNCHANGED <<today, input, rule_profile, config, mode, jurisdiction, profiles, tax,
                   structure, cashflow, output, previous,
                   conversion, tax_base>>

P1_Route ==
    /\ pc = "P1"
    /\ mode' = Some(route_deal(Unwrap(normalized)))
    /\ pc' = "P2"
    /\ UNCHANGED <<today, input, rule_profile, config, normalized, error, jurisdiction,
                   profiles, tax, structure, cashflow, output, previous,
                   conversion, tax_base>>

P2_Jurisdiction ==
    /\ pc = "P2"
    /\ jurisdiction' = Some(resolve_jurisdiction(Unwrap(normalized)))
    /\ pc' = "P3"
    /\ UNCHANGED <<today, input, rule_profile, config, normalized, error, mode, profiles,
                   tax, structure, cashflow, output, previous,
                   conversion, tax_base>>

P3_Profiles ==
    /\ pc = "P3"
    /\ profiles' = Some(load_profiles(Unwrap(normalized), Unwrap(jurisdiction)))
    /\ pc' = "P4"
    /\ UNCHANGED <<today, input, rule_profile, config, normalized, error, mode,
                   jurisdiction, tax, structure, cashflow, output, previous,
                   conversion, tax_base>>

P4_Tax ==
    /\ pc = "P4"
    /\ \E r \in {calculate_tax(Unwrap(normalized), Unwrap(jurisdiction),
                                Unwrap(profiles))} :
           /\ tax' = r.val
           /\ error' = r.err
           /\ pc' = IF r.ok THEN "P5" ELSE "failed"
    /\ UNCHANGED <<today, input, rule_profile, config, normalized, mode, jurisdiction,
                   profiles, structure, cashflow, output, previous,
                   conversion, tax_base>>

P5_Structure ==
    /\ pc = "P5"
    /\ \E r \in {build_structure(Unwrap(normalized), Unwrap(profiles),
                                  Unwrap(tax))} :
           /\ structure' = r.val
           /\ error' = r.err
           /\ pc' = IF r.ok THEN "P6" ELSE "failed"
    /\ UNCHANGED <<today, input, rule_profile, config, normalized, mode, jurisdiction,
                   profiles, tax, cashflow, output, previous,
                   conversion, tax_base>>

P6_Cashflow ==
    /\ pc = "P6"
    /\ cashflow' = generate_cashflow(Unwrap(normalized), Unwrap(structure), today)
    /\ pc' = "P7"
    /\ UNCHANGED <<today, input, rule_profile, config, normalized, error, mode,
                   jurisdiction, profiles, tax, structure, output, previous,
                   conversion, tax_base>>

P7_Finalize ==
    /\ pc = "P7"
    /\ \E env \in Readings :
       \E r \in {finalize_output(Unwrap(normalized), Unwrap(jurisdiction),
                                  Unwrap(tax), Unwrap(structure), cashflow, env)} :
           /\ output' = r.val
           /\ error' = r.err
           /\ pc' = IF r.ok THEN "done" ELSE "failed"
    /\ UNCHANGED <<today, input, rule_profile, config, normalized, mode, jurisdiction,
                   profiles, tax, structure, cashflow, previous,
                   conversion, tax_base>>

Next ==
    \/ P0_Normalize
    \/ P1_Route
    \/ P2_Jurisdiction
    \/ P3_Profiles
    \/ P4_Tax
    \/ P5_Structure
    \/ P6_Cashflow
    \/ P7_Finalize

Spec == Init /\ [][Next]_vars

(* The caller runs run_udc a second time with the arguments of a run that  *)
(* returned an output, on the same day, keeping that output to compare.    *)
RunAgain ==
    /\ pc = "done"
    /\ previous = None
    /\ previous' = output
    /\ pc' = "P0"
    /\ normalized' = None
    /\ mode' = None
    /\ jurisdiction' = None
    /\ profiles' = None
    /\ tax' = None
    /\ structure' = None
    /\ cashflow' = None
    /\ output' = None
    /\ UNCHANGED <<today, input, rule_profile, config, error,
                   conversion, tax_base>>

NextRepeated ==
    \/ Next
    \/ RunAgain

SpecRepeated == Init /\ [][NextRepeated]_vars

----------------------------------------------------------------------------
(* The conversions on their own: a money factor of up to six decimals or   *)
(* an APR of up to four decimals is converted there and back, by the       *)
(* methods of MoneyFactor (api = "types") or by the functions of           *)
(* algorithms::lease.                                                      *)
(* conversion.values is the trail of values, the input first.              *)

(* The largest money factor converted, in millionths, and the largest APR, *)
(* in hundredths of a percent.                                             *)
MaxMoneyFactorInput == 2000

MaxAprInput == 1200

InitConversion ==
    /\ pc = "convert"
    /\ today = None
    /\ input = None
    /\ rule_profile = None
    /\ config = None
    /\ normalized = None
    /\ error = None
    /\ mode = None
    /\ jurisdiction = None
    /\ profiles = None
    /\ tax = None
    /\ structure = None
    /\ cashflow = None
    /\ output = None
    /\ previous = None
    /\ tax_base = None
    /\ \E api \in {"types", "lease"} :
          \/ \E k \in 0..MaxMoneyFactorInput :
                 conversion = [ api |-> api, unit |-> "mf",
                                values |-> << BigShift[ToBig[100 * k], 5] >> ]
          \/ \E k \in 0..MaxAprInput :
                 conversion = [ api |-> api, unit |-> "apr",
                                values |-> << BigShift[ToBig[k], 6] >> ]

ConvertToApr ==
    /\ pc = "convert"
    /\ conversion.unit = "mf"
    /\ Len(conversion.values) < 3
    /\ \E mf \in {conversion.values[Len(conversion.values)]} :
           conversion' =
               [conversion EXCEPT
                   !.unit = "apr",
                   !.values = Append(@, IF conversion.api = "types" THEN to_apr(mf)
                                        ELSE money_factor_to_apr(mf))]
    /\ UNCHANGED <<pc, today, input, rule_profile, config, normalized, error, mode,
                   jurisdiction, profiles, tax, structure, cashflow, output,
                   previous, tax_base>>

ConvertFromApr ==
    /\ pc = "convert"
    /\ conversion.unit = "apr"
    /\ Len(conversion.values) < 3
    /\ \E apr \in {conversion.values[Len(conversion.values)]} :
           conversion' =
               [conversion EXCEPT
                   !.unit = "mf",
                   !.values = Append(@, IF conversion.api = "types" THEN from_apr(apr)
                                        ELSE apr_to_money_factor(apr))]
    /\ UNCHANGED <<pc, today, input, rule_profile, config, normalized, error, mode,
                   jurisdiction, profiles, tax, structure, cashflow, output,
                   previous, tax_base>>

NextConversion ==
    \/ ConvertToApr
    \/ ConvertFromApr

SpecConversion == InitConversion /\ [][NextConversion]_vars

----------------------------------------------------------------------------
(* Properties of P0. *)

(* C9: normalization is idempotent - whenever normalize_deal_input accepts *)
(* a raw deal, normalizing the normalized deal again succeeds and yields   *)
(* the same normalized deal (amounts, defaults and derived totals).        *)
C9_NormalizeIdempotent ==
    IsSome(normalized) =>
        LET again == normalize_deal_input(Unwrap(normalized).inner, today)
        IN  again.ok /\ again.val = normalized

(* P0 accepted a price that rounds to 0.00, and rejects its own output. *)
C9_RejectsOwnOutput ==
    /\ IsSome(normalized)
    /\ Unwrap(normalized).inner.vehicle_price = DZero
    /\ ~normalize_deal_input(Unwrap(normalized).inner, today).ok

(* The fields of a deal that break one of the listed input constraints. *)
ListedViolations(inp) ==
    { <<"vehicle_price">> :
        x \in { v \in {inp.vehicle_price} :
                  DLe(v, DZero) \/ DLt(Cents(MAX_VEHICLE_PRICE), v) } }
    \cup { <<"cash_down">> : x \in { v \in {inp.cash_down} : DLt(v, DZero) } }
    \cup { <<"rebate", inp.rebates[i].id, "amount">> :
             i \in { j \in 1..Len(inp.rebates) : DLt(inp.rebates[j].amount, DZero) } }
    \cup { <<"product", inp.products[i].id, "price">> :
             i \in { j \in 1..Len(inp.products) : DLt(inp.products[j].price, DZero) } }
    \cup { <<"fees", f>> :
             f \in { g \in DOMAIN inp.fees \ {"other_fees"} : DLt(inp.fees[g], DZero) } }
    \cup { <<"fees.other", inp.fees.other_fees[i].name>> :
             i \in { j \in 1..Len(inp.fees.other_fees) :
                       DLt(inp.fees.other_fees[j].amount, DZero) } }
    \cup (IF inp.deal_type = "Finance"
          THEN IF ~IsSome(inp.finance_params) THEN { <<"finance_params">> }
               ELSE LET fp == Unwrap(inp.finance_params)
                    IN  { <<"finance_params.term_months">> :
                            x \in { t \in {fp.term_months} : t < 12 \/ t > 84 } }
                        \cup { <<"finance_params.apr">> :
                            x \in { a \in {fp.apr} : a < 0 \/ a > 3 * (RateScale \div 10) } }
          ELSE {})
    \cup (IF inp.deal_type = "Lease"
          THEN IF ~IsSome(inp.lease_params) THEN { <<"lease_params">> }
               ELSE LET lp == Unwrap(inp.lease_params)
                    IN  { <<"lease_params.term_months">> :
                            x \in { t \in {lp.term_months} : t < 24 \/ t > 60 } }
                        \cup { <<"lease_params.money_factor">> :
                            x \in { f \in {lp.money_factor} :
                                      f <= 0 \/ f > MfScale \div 100 } }
                        \cup { <<"lease_params.residual_percent">> :
                            x \in { r \in {lp.residual_percent} :
                                      r <= 0 \/ r >= RateScale } }
                        \cup { <<"lease_params.annual_miles">> :
                            x \in { m \in {lp.annual_miles} : m < 5000 \/ m > 25000 } }
          ELSE {})

(* C10: normalize_deal_input fails with a Validation error naming an       *)
(* offending field exactly when the deal breaks a listed constraint (price *)
(* in (0, 10,000,000], cash down, rebate, product and fee amounts >= 0,    *)
(* finance and lease parameter ranges), and succeeds otherwise.            *)
C10_ValidationExact ==
    pc # "P0" =>
        /\ IsSome(error) <=> ListedViolations(input) # {}
        /\ IsSome(error) =>
              /\ Unwrap(error).kind = "Validation"
              /\ Unwrap(error).field \in ListedViolations(input)

(* P0 accepted a deal whose disposition fee is negative. *)
C10_NegativeDispositionAccepted ==
    /\ IsSome(normalized)
    /\ DLt(input.fees.disposition_fee, DZero)

----------------------------------------------------------------------------
(* Properties of P4. *)

(* C1: every tax calculation produced by P4 has tax_base >= 0,             *)
(* net_tax >= 0 and reciprocity_credit <= primary_tax.                     *)
C1_TaxInvariants ==
    IsSome(tax) =>
        LET t == Unwrap(tax)
        IN  /\ DLe(DZero, t.tax_base)
            /\ DLe(DZero, t.net_tax)
            /\ DLe(t.reciprocity_credit, t.primary_tax)

(* An interstate deal with a trade-in whose credit is positive and smaller *)
(* than the primary tax.                                                   *)
C1_Witness ==
    /\ IsSome(tax)
    /\ Unwrap(jurisdiction).is_interstate
    /\ DLt(DZero, Unwrap(tax).reciprocity_credit)
    /\ DLt(Unwrap(tax).reciprocity_credit, Unwrap(tax).primary_tax)
    /\ DLt(DZero, Unwrap(tax).base_breakdown.trade_credit_applied)

(* C2: the trade credit applied to the tax base is at most the trade-in    *)
(* value, at most the profile's maximum trade-in credit when one is set,   *)
(* and at most the base before the credit (price + taxable fees + taxable  *)
(* products).                                                              *)
C2_TradeCreditBounded ==
    IsSome(tax) =>
        LET b     == Unwrap(tax).base_breakdown
            rules == Unwrap(profiles).primary_rules.base_rules
            value == UnwrapOr(Unwrap(normalized).inner.trade_in_value, DZero)
        IN  /\ DLe(b.trade_credit_applied, value)
            /\ IsSome(rules.max_trade_in_credit) =>
                   DLe(b.trade_credit_applied, Unwrap(rules.max_trade_in_credit))
            /\ DLe(b.trade_credit_applied,
                   DSum(<<b.selling_price, b.taxable_fees, b.taxable_products>>))

(* A negative trade-in value passed P0 and received a credit of zero. *)
C2_NegativeTradeValue ==
    /\ IsSome(tax)
    /\ DLt(UnwrapOr(Unwrap(normalized).inner.trade_in_value, DZero), DZero)
    /\ Unwrap(tax).base_breakdown.trade_credit_applied = DZero

(* C3: the amounts of the tax components sum to the reported primary_tax   *)
(* to within 0.01.                                                         *)
C3_ComponentSum ==
    IsSome(tax) =>
        DLe(DAbs(DSub(DSum(Amounts(Unwrap(tax).components)),
                      Unwrap(tax).primary_tax)),
            Cents(1))

(* A standard tax with a state and a local component. *)
C3_Witness ==
    /\ IsSome(tax)
    /\ Len(Unwrap(tax).components) >= 2
    /\ DLt(DZero, Unwrap(tax).primary_tax)

(* The credit the reciprocity rule prescribes, from the tax base. *)
PrescribedCredit(t, j, p) ==
    IF ~j.is_interstate THEN DZero
    ELSE LET reciprocity == p.primary_rules.reciprocity
             secondary   == Unwrap(p.secondary_rules)
             S == RateMul(t.tax_base, secondary.rates.default_combined_rate)
         IN  IF secondary.state_code \in reciprocity.no_credit_states THEN DZero
             ELSE IF secondary.state_code \in reciprocity.full_credit_states
             THEN DMin(S, t.primary_tax)
             ELSE IF IsSome(reciprocity.max_credit_rate)
             THEN DMin(DMin(S, RateMul(t.tax_base,
                                       Unwrap(reciprocity.max_credit_rate))),
                       t.primary_tax)
             ELSE DMin(S, t.primary_tax)

(* C4: the reciprocity credit is 0 when the deal is not interstate;        *)
(* otherwise, when the primary state offers reciprocity, it is             *)
(* min(S, primary_tax) for full credit, min(S, base * max_credit_rate,     *)
(* primary_tax) for partial credit and 0 for a no-credit state, with       *)
(* S = tax base * the secondary combined rate; and                         *)
(* net_tax = max(0, primary_tax - credit).                                 *)
C4_ReciprocityCredit ==
    IsSome(tax) =>
        LET t == Unwrap(tax)
            j == Unwrap(jurisdiction)
            p == Unwrap(profiles)
        IN  /\ (~j.is_interstate \/ p.primary_rules.reciprocity.offers_reciprocity)
                  => t.reciprocity_credit = PrescribedCredit(t, j, p)
            /\ t.net_tax = DMax(DZero, DSub(t.primary_tax, t.reciprocity_credit))

(* Home TX, transaction NV, price 30,000 with a 10,000 trade-in: the tax   *)
(* base is 20,000 and the primary tax 1,650.00, yet the whole primary tax  *)
(* is credited.                                                            *)
C4_CreditFromPrice ==
    /\ IsSome(tax)
    /\ Unwrap(jurisdiction).home_state = "TX"
    /\ Unwrap(jurisdiction).transaction_state = "NV"
    /\ Unwrap(tax).tax_base = Cents(2000000)
    /\ Unwrap(tax).primary_tax = Cents(165000)
    /\ Unwrap(tax).reciprocity_credit = Cents(165000)
    /\ Unwrap(tax).net_tax = DZero

----------------------------------------------------------------------------
(* Properties of P5 and P6 *)

(* C5: for every Finance deal that P0 accepts, the finance structure's     *)
(* total_of_payments is at least its amount_financed.                      *)
C5_TotalCoversAmountFinanced ==
    (IsSome(structure) /\ Unwrap(structure).kind = "Finance") =>
        DLe(Unwrap(structure).amount_financed,
            Unwrap(structure).total_of_payments)

(* 1,000.01 financed at APR 0 over 12 months: the payment is 83.33 and the *)
(* total of payments 999.96.                                               *)
C5_TotalBelowAmountFinanced ==
    /\ IsSome(structure)
    /\ Unwrap(structure).kind = "Finance"
    /\ Unwrap(structure).apr = 0
    /\ Unwrap(structure).term_months = 12
    /\ Unwrap(structure).amount_financed = Cents(100001)
    /\ Unwrap(structure).monthly_payment = Cents(8333)
    /\ Unwrap(structure).total_of_payments = Cents(99996)

(* C6: the last entry of a Finance amortization schedule has               *)
(* remaining_balance 0, and the principal column sums to amount_financed   *)
(* to within 0.02.                                                         *)
C6_ScheduleRepaysAmountFinanced ==
    (IsSome(cashflow) /\ Unwrap(cashflow).kind = "Finance") =>
        LET schedule == Unwrap(cashflow).schedule
            paid == DSum([i \in 1..Len(schedule) |-> schedule[i].principal])
        IN  /\ schedule[Len(schedule)].remaining_balance = DZero
            /\ DLe(DAbs(DSub(paid, Unwrap(structure).amount_financed)), Cents(2))

(* 0.07 financed at APR 0 over 12 months: the payment is 0.01, and eleven  *)
(* entries each report a principal of 0.01.                                *)
C6_PrincipalExceedsAmountFinanced ==
    /\ IsSome(cashflow)
    /\ Unwrap(cashflow).kind = "Finance"
    /\ Unwrap(structure).apr = 0
    /\ Unwrap(structure).term_months = 12
    /\ Unwrap(structure).amount_financed = Cents(7)
    /\ \A i \in 1..11 : Unwrap(cashflow).schedule[i].principal = Cents(1)
    /\ Unwrap(cashflow).schedule[12].principal = DZero
    /\ Unwrap(cashflow).schedule[12].remaining_balance = DZero

(* C7: in a Finance amortization schedule every entry but the final one    *)
(* has principal + interest = payment amount.                              *)
C7_EntryAddsUp ==
    (IsSome(cashflow) /\ Unwrap(cashflow).kind = "Finance") =>
        LET schedule == Unwrap(cashflow).schedule
        IN  \A i \in 1..(Len(schedule) - 1) :
                DAdd(schedule[i].principal, schedule[i].interest)
                    = schedule[i].payment_amount

(* A schedule at a positive APR whose entry before the final one carries   *)
(* both interest and principal.                                            *)
C7_Witness ==
    /\ IsSome(cashflow)
    /\ Unwrap(cashflow).kind = "Finance"
    /\ Unwrap(structure).apr > 0
    /\ LET schedule == Unwrap(cashflow).schedule
           entry == schedule[Len(schedule) - 1]
       IN  /\ DLt(DZero, entry.interest)
           /\ DLt(DZero, entry.principal)
           /\ DLt(DZero, entry.remaining_balance)

(* C8: the lease structure's base_monthly_payment is exactly               *)
(* monthly_depreciation + monthly_rent_charge, as the three are reported.  *)
C8_BasePaymentExact ==
    (IsSome(structure) /\ Unwrap(structure).kind = "Lease") =>
        Unwrap(structure).base_monthly_payment
            = DAdd(Unwrap(structure).monthly_depreciation,
                   Unwrap(structure).monthly_rent_charge)

(* A lease whose depreciation and rent charge both leave a remainder over  *)
(* the term, so that both monthly amounts are rounded.                     *)
C8_Witness ==
    /\ IsSome(structure)
    /\ Unwrap(structure).kind = "Lease"
    /\ Unwrap(structure).depreciation.c % Unwrap(structure).term_months # 0
    /\ Unwrap(structure).rent_charge.c % Unwrap(structure).term_months # 0
    /\ DLt(DZero, Unwrap(structure).monthly_depreciation)
    /\ DLt(DZero, Unwrap(structure).monthly_rent_charge)

----------------------------------------------------------------------------
(* Properties of the whole run. *)

(* C11: determinism - a second run of the pipeline on the same deal and    *)
(* the same rules returns an output equal to the first run's in every      *)
(* field, identifiers, timestamps and the audit trace's checksums included.*)
C11_Deterministic ==
    (pc = "done" /\ IsSome(previous)) => output = previous

(* Two runs on the same arguments whose outputs differ in the identifiers, *)
(* the timestamp and both checksums, and in nothing else.                  *)
C11_RunsDiffer ==
    /\ pc = "done"
    /\ IsSome(previous)
    /\ Unwrap(output).output_id # Unwrap(previous).output_id
    /\ Unwrap(output).deal_id # Unwrap(previous).deal_id
    /\ Unwrap(output).calculated_at # Unwrap(previous).calculated_at
    /\ Unwrap(output).audit_trace.input_checksum
           # Unwrap(previous).audit_trace.input_checksum
    /\ Unwrap(output).audit_trace.output_checksum
           # Unwrap(previous).audit_trace.output_checksum
    /\ [Unwrap(output) EXCEPT !.output_id = "", !.deal_id = "",
                              !.calculated_at = 0, !.audit_trace = <<>>]
       = [Unwrap(previous) EXCEPT !.output_id = "", !.deal_id = "",
                                  !.calculated_at = 0, !.audit_trace = <<>>]

(* C12: the tax of run_udc's output comes from the rule profile the caller *)
(* passes in - for a Finance deal with home state = transaction state and  *)
(* no fees, trade-in, rebates or products, run with a profile whose only   *)
(* rate is its state rate, net_tax = round(vehicle_price * state_rate)     *)
(* (6.25% of 30,000 = 1,875, between 1,800 and 2,000).                     *)
C12_TaxFromPassedProfile ==
    ( /\ pc = "done"
      /\ input.deal_type = "Finance"
      /\ input.home_state = input.transaction_state
      /\ input.fees = ZeroFees
      /\ input.trade_in_value = None
      /\ input.rebates = <<>>
      /\ input.products = <<>>
      /\ rule_profile.county_rate = None
      /\ rule_profile.city_rate = None
      /\ rule_profile.district_rates = <<>> )
    => Unwrap(output).tax_breakdown.net_tax
           = RateMul(input.vehicle_price, rule_profile.state_rate)

(* The run of test_tax_calculation_basic: Texas, 30,000, the Texas rules   *)
(* passed in at 6.25% - and a net tax of 2,475.00, the built-in Texas      *)
(* profile's state tax plus its local tax.                                 *)
C12_TexasTaxAboveRange ==
    /\ pc = "done"
    /\ input = create_finance_deal(Cents(3000000), DZero, 500, 60, "TX")
    /\ rule_profile = create_texas_rules
    /\ Unwrap(output).tax_breakdown.net_tax = Cents(247500)
    /\ ~DLt(Unwrap(output).tax_breakdown.net_tax, Cents(200000))
    /\ Len(Unwrap(output).tax_breakdown.line_items) = 2

(* C13: when a phase returns an error the pipeline returns that error, no  *)
(* later phase runs and no output is produced, and the error carries the   *)
(* identifier of the phase that failed (the phase is the first one without *)
(* a result; only UdcError::Calculation has a phase field).                *)
C13_ErrorAbortsTagged ==
    pc = "failed" =>
        /\ IsSome(error)
        /\ output = None
        /\ normalized = None =>
               mode = None /\ jurisdiction = None /\ profiles = None /\ tax = None
        /\ tax = None => structure = None
        /\ structure = None => cashflow = None
        /\ Unwrap(error).kind = "Calculation"
        /\ Unwrap(error).field[2] \in
               (CASE normalized = None -> {"P0", "P0_NORMALIZE"}
                  [] tax = None -> {"P4", "P4_TAX"}
                  [] structure = None -> {"P5", "P5_STRUCTURE"}
                  [] OTHER -> {"P7", "P7_FINALIZE"})

(* P0 rejected the deal and nothing ran after it, and the error returned   *)
(* is a Validation error: a field name and no phase.                       *)
C13_ValidationErrorUntagged ==
    /\ pc = "failed"
    /\ normalized = None
    /\ mode = None /\ jurisdiction = None /\ profiles = None /\ tax = None
    /\ structure = None /\ cashflow = None /\ output = None
    /\ error = ValidationError(<<"vehicle_price">>)
    /\ Unwrap(error).kind = "Validation"

----------------------------------------------------------------------------
(* Properties of P2 and P3. *)

C15_InterstateHasSecondary ==
    (IsSome(profiles) /\ Unwrap(jurisdiction).is_interstate)
        => IsSome(Unwrap(profiles).secondary_rules)

(* A lease signed and garaged in New York by a Nevada resident: interstate,*)
(* New York governs, and P3 loaded no secondary profile.                   *)
C15_InterstateWithoutSecondary ==
    /\ IsSome(profiles)
    /\ Unwrap(normalized).inner.deal_type = "Lease"
    /\ Unwrap(jurisdiction).home_state = "NV"
    /\ Unwrap(jurisdiction).transaction_state = "NY"
    /\ Unwrap(jurisdiction).garaging_state = "NY"
    /\ Unwrap(jurisdiction).is_interstate
    /\ Unwrap(jurisdiction).governing_state = "NY"
    /\ Unwrap(jurisdiction).secondary_state = None
    /\ Unwrap(profiles).secondary_rules = None

----------------------------------------------------------------------------
(* Properties of P4: special tax types. *)

(* C16: under a Highway Use Tax profile the taxed base is the base capped  *)
(* at 80,000, the tax is 3% of it, and the special-tax record carries a    *)
(* cap annotation whenever the base before capping exceeds 80,000.         *)
C16_HutCapped ==
    (IsSome(tax) /\ Unwrap(tax).tax_type = "Hut") =>
        LET t      == Unwrap(tax)
            hut    == Unwrap(t.special_tax)
            b      == t.base_breakdown
            before == DSub(DSub(DSum(<<b.selling_price, b.taxable_fees,
                                       b.taxable_products>>),
                                b.trade_credit_applied),
                           b.rebates_applied)
        IN  /\ hut.base = round_money(DMin(before, Cents(8000000)))
            /\ hut.amount = RateMul(hut.base, 300)
            /\ DLt(Cents(8000000), before) => IsSome(hut.cap_applied)

(* North Carolina, price 100,000.00 and nothing else: the base is capped   *)
(* to 80,000.00 and the tax is 2,400.00; the cap is noted on the base      *)
(* breakdown, and the special-tax record has no cap annotation.            *)
C16_CapNotAnnotated ==
    /\ IsSome(tax)
    /\ Unwrap(tax).tax_type = "Hut"
    /\ Unwrap(tax).base_breakdown.selling_price = Cents(10000000)
    /\ Unwrap(tax).base_breakdown.trade_credit_applied = DZero
    /\ Unwrap(tax).base_breakdown.taxable_fees = DZero
    /\ Unwrap(tax).tax_base = Cents(8000000)
    /\ Unwrap(Unwrap(tax).special_tax).base = Cents(8000000)
    /\ Unwrap(Unwrap(tax).special_tax).amount = Cents(240000)
    /\ IsSome(Unwrap(tax).base_breakdown.cap_applied)
    /\ Unwrap(Unwrap(tax).special_tax).cap_applied = None

----------------------------------------------------------------------------
(* Properties of the output. *)

(* C18: a successful output holds exactly one of the cash, finance and     *)
(* lease structures: the one of the input deal's type.                     *)
C18_OneStructure ==
    IsSome(output) =>
        /\ IsSome(Unwrap(output).cash_structure) <=> input.deal_type = "Cash"
        /\ IsSome(Unwrap(output).finance_structure) <=> input.deal_type = "Finance"
        /\ IsSome(Unwrap(output).lease_structure) <=> input.deal_type = "Lease"
        /\ Cardinality({ k \in {"cash_structure", "finance_structure",
                                 "lease_structure"} :
                           IsSome(Unwrap(output)[k]) }) = 1

(* The output of a lease: a lease structure and no other. *)
C18_LeaseOutput ==
    /\ pc = "done"
    /\ input.deal_type = "Lease"
    /\ IsSome(Unwrap(output).lease_structure)
    /\ Unwrap(Unwrap(output).lease_structure).kind = "Lease"
    /\ Unwrap(output).cash_structure = None
    /\ Unwrap(output).finance_structure = None

----------------------------------------------------------------------------
(* Properties of P6: the payment schedule. *)

(* C19: P6 produces no schedule for a Cash deal; for a Finance or Lease    *)
(* deal the schedule has exactly term entries in payment order - entry i   *)
(* has payment number i and is due i - 1 calendar months after the first   *)
(* payment date (on the last day of a shorter month), so the numbers run   *)
(* 1..term and the due dates strictly increase.                            *)
C19_ScheduleOrdered ==
    pc \in {"P7", "done"} =>
        IF Unwrap(structure).kind = "Cash" THEN cashflow = None
        ELSE /\ IsSome(cashflow)
             /\ LET schedule == Unwrap(cashflow).schedule
                    first    == Unwrap(cashflow).first_payment_date
                    term     == Unwrap(structure).term_months
                    MonthsAfter(k) ==
                        LET m     == 12 * first.y + (first.mo - 1) + k
                            year  == m \div 12
                            month == (m % 12) + 1
                            last  == CASE month \in {4, 6, 9, 11} -> 30
                                       [] month = 2 ->
                                            IF year % 4 = 0
                                               /\ (year % 100 # 0 \/ year % 400 = 0)
                                            THEN 29 ELSE 28
                                       [] OTHER -> 31
                        IN  [y |-> year, mo |-> month,
                             d |-> IF first.d < last THEN first.d ELSE last]
                    Before(a, b) ==
                        \/ a.y < b.y
                        \/ a.y = b.y /\ a.mo < b.mo
                        \/ a.y = b.y /\ a.mo = b.mo /\ a.d < b.d
                IN  /\ Len(schedule) = term
                    /\ \A i \in 1..term :
                           /\ schedule[i].payment_number = i
                           /\ schedule[i].due_date = MonthsAfter(i - 1)
                    /\ \A i \in 1..(term - 1) :
                           Before(schedule[i].due_date, schedule[i + 1].due_date)

(* A lease whose first payment falls on 31 January 2024: 24 payments, the  *)
(* second due on 29 February 2024, the 13th on 31 January 2025 and the     *)
(* 14th on 28 February 2025.                                               *)
C19_MonthEndLease ==
    /\ pc = "P7"
    /\ Unwrap(structure).kind = "Lease"
    /\ Unwrap(cashflow).first_payment_date = Date(2024, 1, 31)
    /\ Len(Unwrap(cashflow).schedule) = 24
    /\ Unwrap(cashflow).schedule[2].due_date = Date(2024, 2, 29)
    /\ Unwrap(cashflow).schedule[13].due_date = Date(2025, 1, 31)
    /\ Unwrap(cashflow).schedule[14].due_date = Date(2025, 2, 28)
    /\ Unwrap(cashflow).schedule[24].payment_number = 24

----------------------------------------------------------------------------
(* Properties of the money factor conversions. *)

(* C20: a money factor converted to an APR and back is the original money  *)
(* factor at 6 decimal places, an APR converted to a money factor and back *)
(* is the original APR at 4 decimal places, and the APR of a money factor  *)
(* is, as a percentage, 2400 times the money factor.                       *)
C20_RoundTrip ==
    pc = "convert" =>
        LET values == conversion.values
            (* a fixed-point value rounded to 28 - 4 * limbs places *)
            RoundTo(v, unit) ==
                LET qr   == BigDivMod[v, unit]
                    half == BigCmp[BigAdd[qr[2], qr[2]], unit]
                IN  IF half > 0 \/ (half = 0 /\ BigLimb(qr[1], 1) % 2 = 1)
                    THEN BigAdd[qr[1], <<1>>] ELSE qr[1]
            SixPlaces  == BigShift[<<100>>, 5]
            FourPlaces == BigShift[<<1>>, 6]
        IN  /\ (Len(values) = 3 /\ conversion.unit = "mf") =>
                   RoundTo(values[3], SixPlaces) = RoundTo(values[1], SixPlaces)
            /\ (Len(values) = 3 /\ conversion.unit = "apr") =>
                   RoundTo(values[3], FourPlaces) = RoundTo(values[1], FourPlaces)
            /\ (Len(values) >= 2 /\ (Len(values) = 2 <=> conversion.unit = "apr")) =>
                   BigMulSmall[values[2], 100] = BigMulSmall[values[1], 2400]

(* An APR of 1%, whose money factor 0.000416666... does not terminate: the *)
(* APR that comes back is not 0.01 exactly, and is 0.0100 at four places.  *)
C20_AprRoundTripInexact ==
    /\ pc = "convert"
    /\ conversion.api = "types"
    /\ conversion.unit = "apr"
    /\ Len(conversion.values) = 3
    /\ conversion.values[1] = BigShift[ToBig[100], 6]
    /\ conversion.values[2] = << 6667, 6666, 6666, 6666, 6666, 1666, 4 >>
    /\ conversion.values[3] # conversion.values[1]
    /\ conversion.values[3] = BigAdd[conversion.values[1], <<8>>]

----------------------------------------------------------------------------
(* Warnings. *)

(* C21: when P3 resolves the governing state's profile to the synthetic    *)
(* default profile, the run succeeds and the output's validation warnings  *)
(* contain a warning for it, unless the caller has set strict validation, *)
(* in which case the run does not end with an output.                      *)
C21_DefaultProfileWarned ==
    (/\ pc = "done"
     /\ Unwrap(profiles).primary_rules =
            default_profile(Unwrap(jurisdiction).governing_state,
                            Unwrap(normalized).inner.deal_type))
        => /\ ~config.strict_validation
           /\ IsSome(output)
           /\ Unwrap(output).validation.warnings # <<>>

(* A strict call whose governing state (NV) has the default profile ends   *)
(* with an output that is valid and carries no warning.                    *)
C21_StrictRunWithoutWarning ==
    /\ pc = "done"
    /\ config.strict_validation
    /\ Unwrap(jurisdiction).governing_state = "NV"
    /\ Unwrap(profiles).primary_rules = default_profile("NV", "Finance")
    /\ error = None
    /\ Unwrap(output).validation =
           [valid |-> TRUE, errors |-> <<>>, warnings |-> <<>>]

----------------------------------------------------------------------------
(* Properties of the finance structure. *)

(* C22: for every Finance deal, amount_financed = max(0, gross -           *)
(* reductions), where gross = vehicle price + the total fees P0 computed + *)
(* F&I products + net sales tax + |negative equity| and reductions =       *)
(* cash_down + max(net_trade, 0) + total rebates.                          *)
C22_AmountFinanced ==
    (pc \in {"P6", "P7", "done"} /\ Unwrap(structure).kind = "Finance")
        => \E n \in {Unwrap(normalized)} :
           \E gross \in {DSum(<< n.inner.vehicle_price, n.total_fees,
                                 ProductsTotal(n), Unwrap(tax).net_tax,
                                 IF DLt(n.net_trade, DZero) THEN DAbs(n.net_trade)
                                 ELSE DZero >>)} :
           \E reductions \in {DSum(<< n.inner.cash_down, DMax(n.net_trade, DZero),
                                      n.total_rebates >>)} :
               Unwrap(structure).amount_financed =
                   DMax(DZero, DSub(gross, reductions))

(* A Finance deal with a 5.00 fee that is not a dealer fee: the total fees *)
(* are 1,466.345 and the amount financed has 1,461.345 of fees in it.     *)
C22_FeeNotFinanced ==
    /\ pc = "P6"
    /\ Unwrap(structure).kind = "Finance"
    /\ \E n \in {Unwrap(normalized)} :
          /\ Len(n.inner.fees.other_fees) = 2
          /\ n.inner.fees.other_fees[2] =
                 OtherFee("tire_tax", Cents(500), FALSE, FALSE)
          /\ n.total_fees = Money(146634, 5)
          /\ DAdd(Unwrap(structure).taxable_fees,
                  Unwrap(structure).non_taxable_fees) = Money(146134, 5)
          /\ n.net_trade = DZero
          /\ n.total_rebates = DZero
          /\ Unwrap(structure).amount_financed =
                 round_money(DSum(<< n.inner.vehicle_price, Money(146134, 5),
                                     ProductsTotal(n), Unwrap(tax).net_tax >>))

(* C23: for every Finance structure, APR 0 included, the reported finance  *)
(* charge equals total_of_payments - amount_financed.                      *)
C23_FinanceCharge ==
    (pc \in {"P6", "P7", "done"} /\ Unwrap(structure).kind = "Finance")
        => Unwrap(structure).finance_charge =
               DSub(Unwrap(structure).total_of_payments,
                    Unwrap(structure).amount_financed)

(* 1,000.01 at APR 0 over 12 months: twelve payments of 83.33 total 999.96, *)
(* five cents less than the amount financed, and the finance charge is 0.   *)
C23_ZeroAprChargeZero ==
    /\ pc = "P6"
    /\ Unwrap(structure).kind = "Finance"
    /\ Unwrap(structure).apr = 0
    /\ Unwrap(structure).term_months = 12
    /\ Unwrap(structure).amount_financed = Cents(100001)
    /\ Unwrap(structure).monthly_payment = Cents(8333)
    /\ Unwrap(structure).total_of_payments = Cents(99996)
    /\ Unwrap(structure).finance_charge = DZero

----------------------------------------------------------------------------
(* The tax base on its own: P4's build_tax_base and the algorithm           *)
(* calculate_tax_base (algorithms/tax.rs) are applied to the same price,    *)
(* taxable fees, taxable products, trade value, rebates and base rules.     *)

(* TaxBaseResult of calculate_tax_base(components, rules). *)
calculate_tax_base(components, rules) ==
    With(DSum(<< components.selling_price, components.taxable_fees,
                 components.taxable_products >>), LAMBDA base0 :
    With(IF rules.trade_reduces_basis /\ DLt(DZero, components.trade_value)
         THEN DMin(IF IsSome(rules.trade_credit_cap)
                      /\ DLt(Unwrap(rules.trade_credit_cap), components.trade_value)
                   THEN Unwrap(rules.trade_credit_cap)
                   ELSE components.trade_value,
                   base0)
         ELSE DZero, LAMBDA trade_credit_applied :
    With(DSub(base0, trade_credit_applied), LAMBDA base1 :
    With(IF rules.rebates_reduce_basis /\ DLt(DZero, components.rebates)
         THEN DMin(components.rebates, base1) ELSE DZero, LAMBDA rebates_applied :
    With(DSub(base1, rebates_applied), LAMBDA base2 :
    With(IsSome(rules.max_taxable_amount)
         /\ DLt(Unwrap(rules.max_taxable_amount), base2), LAMBDA capped :
    With(IF capped THEN Unwrap(rules.max_taxable_amount) ELSE base2, LAMBDA base3 :
    With(IF IsSome(rules.min_taxable_amount)
            /\ DLt(base3, Unwrap(rules.min_taxable_amount))
         THEN Unwrap(rules.min_taxable_amount) ELSE base3, LAMBDA base4 :
         [ tax_base |-> round_money(DMax(base4, DZero)),
           trade_credit_applied |-> round_money(trade_credit_applied),
           rebates_applied |-> round_money(rebates_applied),
           cap_applied |->
               IF capped THEN Some(Unwrap(rules.max_taxable_amount)) ELSE None ]
    ))))))))

(* The deals whose base is built: prices from below the floor to above the *)
(* cap, trade-ins absent, positive, above the price and negative, with and *)
(* without a rebate, fees and products.                                    *)
TaxBaseDeals ==
    { normalize_value(
        [BaseDeal("Cash", "NV", "NV") EXCEPT
            !.vehicle_price = price, !.trade_in_value = trade,
            !.rebates = rebates, !.fees = extras[1], !.products = extras[2]],
        Date(2024, 1, 31)) :
        price \in { Cents(300000), Cents(3000000), Cents(10000000) },
        trade \in { None, Some(Cents(1000000)), Some(Cents(4000000)),
                    Some(Cents(-500000)) },
        rebates \in { <<>>, <<Rebate("R1", Cents(100000))>> },
        extras \in { <<ZeroFees, <<>> >>, <<FullFees, FullProducts>> } }

(* The base rules applied: every combination of the two switches, a trade  *)
(* credit cap of 25,000, a ceiling of 80,000 and a floor of 5,000.         *)
TaxBaseRuleSets ==
    { [DefaultBaseRules EXCEPT
          !.trade_in_reduces_basis = trade_reduces,
          !.max_trade_in_credit = cap,
          !.rebates_reduce_basis = rebates_reduce,
          !.max_taxable_amount = max,
          !.min_taxable_amount = min] :
        trade_reduces \in BOOLEAN, rebates_reduce \in BOOLEAN,
        cap \in { None, Some(Cents(2500000)) },
        max \in { None, Some(Cents(8000000)) },
        min \in { None, Some(Cents(500000)) } }

InitTaxBase ==
    /\ pc = "tax_base"
    /\ today = None
    /\ input = None
    /\ rule_profile = None
    /\ config = None
    /\ normalized = None
    /\ error = None
    /\ mode = None
    /\ jurisdiction = None
    /\ profiles = None
    /\ tax = None
    /\ structure = None
    /\ cashflow = None
    /\ output = None
    /\ previous = None
    /\ conversion = None
    /\ \E n \in TaxBaseDeals, base_rules \in TaxBaseRuleSets :
           tax_base = [ deal |-> n,
                        rules |-> [default_profile("NV", "Cash") EXCEPT
                                      !.base_rules = base_rules],
                        p4 |-> None, algorithm |-> None ]

(* P4 builds the base of the deal under the rules. *)
BuildTaxBase ==
    /\ pc = "tax_base"
    /\ tax_base.p4 = None
    /\ tax_base' = [tax_base EXCEPT
                       !.p4 = Some(build_tax_base(tax_base.deal, tax_base.rules))]
    /\ UNCHANGED <<pc, today, input, rule_profile, config, normalized, error,
                   mode, jurisdiction, profiles, tax, structure, cashflow, output,
                   previous, conversion>>

(* The algorithm is given the components P4 starts from and the same base  *)
(* rules under its own field names.                                        *)
CalculateTaxBase ==
    /\ pc = "tax_base"
    /\ tax_base.algorithm = None
    /\ \E inp \in {tax_base.deal.inner}, rules \in {tax_base.rules} :
           tax_base' =
               [tax_base EXCEPT !.algorithm = Some(calculate_tax_base(
                   [ selling_price |-> inp.vehicle_price,
                     taxable_fees |-> calculate_taxable_fees(inp.fees, rules),
                     taxable_products |->
                         DSumWhere([i \in 1..Len(inp.products) |-> inp.products[i].price],
                                   [i \in 1..Len(inp.products) |-> inp.products[i].taxable]),
                     trade_value |-> UnwrapOr(inp.trade_in_value, DZero),
                     rebates |-> total_rebates(inp) ],
                   [ trade_reduces_basis |-> rules.base_rules.trade_in_reduces_basis,
                     trade_credit_cap |-> rules.base_rules.max_trade_in_credit,
                     rebates_reduce_basis |-> rules.base_rules.rebates_reduce_basis,
                     max_taxable_amount |-> rules.base_rules.max_taxable_amount,
                     min_taxable_amount |-> rules.base_rules.min_taxable_amount ]))]
    /\ UNCHANGED <<pc, today, input, rule_profile, config, normalized, error,
                   mode, jurisdiction, profiles, tax, structure, cashflow, output,
                   previous, conversion>>

NextTaxBase ==
    \/ BuildTaxBase
    \/ CalculateTaxBase

SpecTaxBase == InitTaxBase /\ [][NextTaxBase]_vars

(* C24: the tax base P4 produces equals the base calculate_tax_base gives  *)
(* for the same price, taxable fees, taxable products, trade value,        *)
(* rebates and base rules; in particular it is raised to                   *)
(* min_taxable_amount when that is set and the base is below it, and       *)
(* lowered to max_taxable_amount when that is set and the base is above.   *)
C24_TaxBaseAsCalculated ==
    (pc = "tax_base" /\ IsSome(tax_base.p4) /\ IsSome(tax_base.algorithm))
        => Unwrap(tax_base.p4).base = Unwrap(tax_base.algorithm).tax_base

(* A price of 3,000.00 under a floor of 5,000.00: P4's base stays at       *)
(* 3,000.00 where the algorithm's is 5,000.00.                             *)
C24_BaseBelowFloor ==
    /\ pc = "tax_base"
    /\ tax_base.rules.base_rules.min_taxable_amount = Some(Cents(500000))
    /\ tax_base.deal.inner.vehicle_price = Cents(300000)
    /\ IsSome(tax_base.p4)
    /\ IsSome(tax_base.algorithm)
    /\ Unwrap(tax_base.p4).base = Cents(300000)
    /\ Unwrap(tax_base.algorithm).tax_base = Cents(500000)

----------------------------------------------------------------------------
(* The pipeline from P5 on: build_structure is called with a tax-computed   *)
(* Texas lease whose primary rules carry any of the lease tax modes (the    *)
(* built-in profiles have CapCostUpfront, MonthlyPayment and Exempt only).  *)

LeaseTaxModes ==
    { "CapitalizedCost", "CapCostUpfront", "MonthlyPayment", "TotalPayments",
      "DepreciationOnly", "AcquisitionTax", "Exempt" }

InitStructure ==
    /\ pc = "P5"
    /\ today = Date(2024, 1, 31)
    /\ input \in { d \in LeaseDeals :
                     d.home_state = "TX" /\ d.transaction_state = "TX" }
    /\ rule_profile = None
    /\ config = None
    /\ error = None
    /\ \E n \in {normalize_deal_input(input, today)} :
          /\ n.ok
          /\ normalized = n.val
          /\ mode = Some(route_deal(Unwrap(n.val)))
          /\ \E j \in {resolve_jurisdiction(Unwrap(n.val))} :
                /\ jurisdiction = Some(j)
                /\ \E lease_tax_mode \in LeaseTaxModes :
                   \E p \in {[load_profiles(Unwrap(n.val), j) EXCEPT
                                !.primary_rules.lease_tax_mode =
                                    Some(lease_tax_mode)]} :
                   \E t \in {calculate_tax(Unwrap(n.val), j, p)} :
                       /\ profiles = Some(p)
                       /\ t.ok
                       /\ tax = t.val
    /\ structure = None
    /\ cashflow = None
    /\ output = None
    /\ previous = None
    /\ conversion = None
    /\ tax_base = None

NextStructure ==
    \/ P5_Structure
    \/ P6_Cashflow
    \/ P7_Finalize

SpecStructure == InitStructure /\ [][NextStructure]_vars

(* C25: for every lease tax mode of the governing profile, the upfront_tax *)
(* and monthly_tax of the lease structure built by P5 follow the mode's    *)
(* rule: CapCostUpfront and AcquisitionTax tax the gross cap cost (before  *)
(* the tax is capitalized) upfront with monthly_tax = 0; MonthlyPayment    *)
(* gives monthly_tax = round(base_payment x rate) with upfront_tax = 0;    *)
(* TotalPayments gives upfront_tax = round(base_payment x term x rate);    *)
(* DepreciationOnly gives monthly_tax = round((depreciation/term) x rate); *)
(* Exempt gives zero for both.                                             *)
C25_LeaseTaxPerMode ==
    (pc \in {"P6", "P7", "done"} /\ Unwrap(structure).kind = "Lease")
        => \E s \in {Unwrap(structure)} :
           \E rate \in {Unwrap(profiles).primary_rules.rates.default_combined_rate} :
           \E tax_mode \in {Unwrap(Unwrap(profiles).primary_rules.lease_tax_mode)} :
              /\ tax_mode \in {"CapCostUpfront", "AcquisitionTax"}
                    => /\ s.upfront_tax =
                              RateMul(DSub(s.gross_cap_cost, s.capitalized_tax), rate)
                       /\ s.monthly_tax = DZero
              /\ tax_mode = "MonthlyPayment"
                    => /\ s.monthly_tax = RateMul(s.base_monthly_payment, rate)
                       /\ s.upfront_tax = DZero
              /\ tax_mode = "TotalPayments"
                    => s.upfront_tax =
                           RateMul(Cents(s.base_monthly_payment.c * s.term_months),
                                   rate)
              /\ tax_mode = "DepreciationOnly"
                    => s.monthly_tax =
                           Cents(MulDivRound(s.depreciation.c, rate,
                                             s.term_months * RateScale))
              /\ tax_mode = "Exempt"
                    => s.upfront_tax = DZero /\ s.monthly_tax = DZero

(* A Texas lease under TotalPayments at 8.25%: the base payment is         *)
(* positive and the structure has no upfront tax and no monthly tax.       *)
C25_TotalPaymentsUntaxed ==
    /\ pc = "P6"
    /\ Unwrap(structure).kind = "Lease"
    /\ Unwrap(profiles).primary_rules.lease_tax_mode = Some("TotalPayments")
    /\ Unwrap(profiles).primary_rules.rates.default_combined_rate = 825
    /\ DLt(DZero, Unwrap(structure).base_monthly_payment)
    /\ Unwrap(structure).upfront_tax = DZero
    /\ Unwrap(structure).monthly_tax = DZero
    /\ Unwrap(structure).total_tax = DZero

----------------------------------------------------------------------------
(* Properties of the lease structure. *)

(* C26: for every Lease deal, depreciation = max(0, adjusted_cap_cost -    *)
(* residual_value), so the depreciation and the monthly depreciation are   *)
(* never negative, even when the residual value exceeds the adjusted cap   *)
(* cost.                                                                   *)
C26_DepreciationNonNegative ==
    (pc \in {"P6", "P7", "done"} /\ Unwrap(structure).kind = "Lease")
        => \E s \in {Unwrap(structure)} :
              /\ s.depreciation =
                     DMax(DZero, DSub(s.adjusted_cap_cost, s.residual_value))
              /\ DLe(DZero, s.depreciation)
              /\ DLe(DZero, s.monthly_depreciation)

(* A 30,000.00 lease with a residual of 99.99% (29,997.00) and an adjusted *)
(* cap cost below it: the depreciation and its monthly share are negative. *)
C26_ResidualAboveCapCost ==
    /\ pc = "P6"
    /\ Unwrap(structure).kind = "Lease"
    /\ Unwrap(structure).residual_value = Cents(2999700)
    /\ DLt(Unwrap(structure).adjusted_cap_cost, Unwrap(structure).residual_value)
    /\ Unwrap(structure).depreciation =
           DSub(Unwrap(structure).adjusted_cap_cost,
                Unwrap(structure).residual_value)
    /\ DLt(Unwrap(structure).depreciation, DZero)
    /\ DLt(Unwrap(structure).monthly_depreciation, DZero)

----------------------------------------------------------------------------
(* Properties across the structure and the schedule. *)

(* C27: for every Finance deal, the payment amounts of all entries of the  *)
(* amortization schedule sum to the total_of_payments reported in the      *)
(* finance structure.                                                      *)
C27_ScheduleSumsToTotal ==
    (pc \in {"P7", "done"} /\ Unwrap(structure).kind = "Finance")
        => \E schedule \in {Unwrap(cashflow).schedule} :
               DSum([i \in 1..Len(schedule) |-> schedule[i].payment_amount]) =
                   Unwrap(structure).total_of_payments

(* 1,000.01 at APR 0 over 12 months: eleven payments of 83.33 and a last   *)
(* one of 83.38 sum to 1,000.01 while total_of_payments is 999.96.         *)
C27_LastPaymentDiffers ==
    /\ pc = "P7"
    /\ Unwrap(structure).kind = "Finance"
    /\ Unwrap(structure).amount_financed = Cents(100001)
    /\ Unwrap(structure).apr = 0
    /\ Unwrap(structure).monthly_payment = Cents(8333)
    /\ Unwrap(structure).total_of_payments = Cents(99996)
    /\ \E schedule \in {Unwrap(cashflow).schedule} :
          /\ Len(schedule) = 12
          /\ schedule[11].payment_amount = Cents(8333)
          /\ schedule[12].payment_amount = Cents(8338)
          /\ DSum([i \in 1..12 |-> schedule[i].payment_amount]) = Cents(100001)

----------------------------------------------------------------------------
(* Properties of the normalized amounts. *)

(* C28: after normalize_deal_input succeeds, every monetary amount of the  *)
(* normalized deal (vehicle price, cash down, trade value and payoff,      *)
(* every rebate amount, every product price and cost, every named fee and  *)
(* every entry of other fees, and the lease cap-cost reduction and         *)
(* security deposit) is the input's amount rounded half-to-even to 2       *)
(* fractional digits.                                                      *)
C28_AmountsRounded ==
    (pc \in {"P1", "P2", "P3", "P4", "P5", "P6", "P7", "done"})
        => \E inp \in {input}, out \in {Unwrap(normalized).inner} :
              /\ out.vehicle_price = round_money(inp.vehicle_price)
              /\ out.cash_down = round_money(inp.cash_down)
              /\ out.trade_in_value = round_money_opt(inp.trade_in_value)
              /\ out.trade_in_payoff = round_money_opt(inp.trade_in_payoff)
              /\ \A i \in 1..Len(inp.rebates) :
                     out.rebates[i].amount = round_money(inp.rebates[i].amount)
              /\ \A i \in 1..Len(inp.products) :
                     /\ out.products[i].price = round_money(inp.products[i].price)
                     /\ out.products[i].cost = round_money(inp.products[i].cost)
              /\ \A i \in 1..Len(NormalizedFeeNames) :
                     out.fees[NormalizedFeeNames[i]] =
                         round_money(inp.fees[NormalizedFeeNames[i]])
              /\ \A i \in 1..Len(inp.fees.other_fees) :
                     out.fees.other_fees[i].amount =
                         round_money(inp.fees.other_fees[i].amount)
              /\ IsSome(inp.lease_params)
                    => /\ Unwrap(out.lease_params).cap_cost_reduction =
                              round_money(Unwrap(inp.lease_params).cap_cost_reduction)
                       /\ Unwrap(out.lease_params).security_deposit =
                              round_money_opt(Unwrap(inp.lease_params).security_deposit)

(* A deal whose first other fee is 12.345 is normalized with that fee      *)
(* still at 12.345, while its named fees are in whole cents.               *)
C28_OtherFeeNotRounded ==
    /\ pc = "P1"
    /\ Len(input.fees.other_fees) = 2
    /\ input.fees.other_fees[1].amount = Money(1234, 5)
    /\ Unwrap(normalized).inner.fees.other_fees[1].amount = Money(1234, 5)
    /\ round_money(Money(1234, 5)) = Cents(1234)
    /\ Unwrap(normalized).inner.fees.doc_fee = Cents(29900)
    /\ Unwrap(normalized).total_fees = Money(146634, 5)

----------------------------------------------------------------------------
(* Properties of the audit trace. *)

(* C29: the audit trace of every successful output contains every audit    *)
(* entry that P4 appended for the deal, in the order P4 produced them,     *)
(* plus one entry for each of the eight phases P0..P7.                     *)
C29_AuditTraceComplete ==
    (pc = "done")
        => \E entries \in {Unwrap(output).audit_trace.entries} :
           \E audit \in {Unwrap(tax).audit} :
              /\ \A phase \in {"P0", "P1", "P2", "P3", "P4", "P5", "P6", "P7"} :
                     Cardinality({i \in 1..Len(entries) :
                                     entries[i].phase = phase
                                     /\ entries[i].operation \notin
                                            {audit[k].step : k \in 1..Len(audit)}})
                         = 1
              /\ [k \in 1..Len(audit) |-> audit[k].step] =
                     [k \in 1..Len(audit) |->
                         SelectSeq(entries,
                                   LAMBDA e : e.operation \in
                                       {audit[a].step : a \in 1..Len(audit)})[k].operation]
              /\ Len(entries) = Len(audit) + 8

(* A Texas finance deal: P4 appended INITIAL_BASE, STATE_TAX and NET_TAX,  *)
(* and the trace of the output is the two entries P0 normalize and P1      *)
(* route.                                                                  *)
C29_TraceOfTwoEntries ==
    /\ pc = "done"
    /\ Unwrap(jurisdiction).governing_state = "TX"
    /\ [k \in 1..Len(Unwrap(tax).audit) |-> Unwrap(tax).audit[k].step] =
           << "INITIAL_BASE", "STATE_TAX", "NET_TAX" >>
    /\ [k \in 1..Len(Unwrap(output).audit_trace.entries) |->
           << Unwrap(output).audit_trace.entries[k].phase,
              Unwrap(output).audit_trace.entries[k].operation >>] =
           << << "P0", "normalize" >>, << "P1", "route" >> >>

----------------------------------------------------------------------------
(* Properties of the lease tax in the structure. *)

(* C30: in every lease structure the lease tax is charged once:            *)
(* capitalized_tax and upfront_tax are never both non-zero, so a tax that  *)
(* is capitalized into the gross cap cost is not also added to             *)
(* due_at_signing and total_lease_cost.                                    *)
C30_LeaseTaxChargedOnce ==
    (pc \in {"P6", "P7", "done"} /\ Unwrap(structure).kind = "Lease")
        => \/ Unwrap(structure).capitalized_tax = DZero
           \/ Unwrap(structure).upfront_tax = DZero

(* A New York lease (CapCostUpfront at 8%) of 30,000.00 with nothing else  *)
(* in it: the tax of 2,400.00 is in the gross cap cost of 32,400.00, and   *)
(* again in the amount due at signing and in the total lease cost.         *)
C30_TaxCapitalizedAndUpfront ==
    /\ pc = "P6"
    /\ Unwrap(structure).kind = "Lease"
    /\ Unwrap(structure).lease_tax_mode = "CapCostUpfront"
    /\ \E s \in {Unwrap(structure)} :
          /\ s.selling_price = Cents(3000000)
          /\ s.capitalized_tax = Cents(240000)
          /\ s.upfront_tax = Cents(240000)
          /\ s.gross_cap_cost = Cents(3240000)
          /\ s.cash_down = DZero
          /\ s.security_deposit = DZero
          /\ s.acquisition_fee_upfront = DZero
          /\ s.due_at_signing = DAdd(s.first_payment, Cents(240000))
          /\ s.total_lease_cost = DAdd(s.total_base_payments, Cents(240000))

====
